---- MODULE Spec2Model ----
(***************************************************************************)
(* Model of the Refactoring Workbench transformation engine:               *)
(*   backend/services/scanner.py  (FileScanner: matching, replacement)     *)
(*   backend/services/refactor.py (RefactorExecutor: backup, write-back,   *)
(*                                 batch, restore_from_backup)             *)
(* Text is a sequence of characters; offsets are 0-based as in Python.     *)
(***************************************************************************)
EXTENDS Integers, Sequences, FiniteSets, TLC

(***************************************************************************)
(* Bounds of the model.                                                    *)
(***************************************************************************)
MaxContentLen == 4
MaxPatternLen == 2
MaxReplLen == 1

(***************************************************************************)
(* Characters.  NL is "\n".  LONG_S is U+017F (LATIN SMALL LETTER LONG S): *)
(* str.lower() leaves it alone, while re.IGNORECASE folds it with s and S. *)
(***************************************************************************)
NL == "\n"
LONG_S == "U+017F"
ContentChars == {"s", "S", LONG_S, NL}
PatternChars == {"s", "S", NL, ".", "("}
ReplChars == {"s", NL}

\* All sequences over chars of length at most n.
RECURSIVE SeqsUpTo(_, _)
SeqsUpTo(chars, n) ==
    IF n = 0 THEN {<<>>}
    ELSE LET shorter == SeqsUpTo(chars, n - 1)
         IN  shorter \cup {Append(t, c) : t \in shorter, c \in chars}

\* Python slice s[i:j] for 0 <= i.
Slice(s, i, j) ==
    LET hi == IF j > Len(s) THEN Len(s) ELSE j
    IN  IF i >= hi THEN <<>> ELSE SubSeq(s, i + 1, hi)

\* str.lower() on one character and on a string.
LowerChar(c) == IF c = "S" THEN "s" ELSE IF c = "C" THEN "c" ELSE c
lower(s) == [i \in 1..Len(s) |-> LowerChar(s[i])]

\* The case folding of re.IGNORECASE: s, S and U+017F are one class.
ReFoldChar(c) == IF c \in {"S", LONG_S} THEN "s" ELSE c

\* str.find(sub, start): lowest offset >= start where sub occurs, or -1.
str_find(hay, sub, start) ==
    LET n == Len(sub)
        hits == {p \in start..(Len(hay) - n) : Slice(hay, p, p + n) = sub}
    IN  IF hits = {} THEN -1 ELSE CHOOSE p \in hits : \A q \in hits : p <= q

\* str.count(sub): non-overlapping occurrences; len+1 for the empty string.
RECURSIVE str_count_from(_, _, _)
str_count_from(s, sub, start) ==
    LET pos == str_find(s, sub, start)
    IN  IF pos = -1 THEN 0 ELSE 1 + str_count_from(s, sub, pos + Len(sub))
str_count(s, sub) ==
    IF Len(sub) = 0 THEN Len(s) + 1 ELSE str_count_from(s, sub, 0)

\* str.replace(old, new): every non-overlapping occurrence, left to right;
\* an empty old inserts new before every character and at the end.
RECURSIVE str_replace_from(_, _, _, _)
str_replace_from(s, old, new, start) ==
    LET pos == str_find(s, old, start)
    IN  IF pos = -1 THEN Slice(s, start, Len(s))
        ELSE Slice(s, start, pos) \o new
             \o str_replace_from(s, old, new, pos + Len(old))
RECURSIVE str_interleave(_, _, _)
str_interleave(s, new, i) ==
    IF i > Len(s) THEN new ELSE new \o <<s[i]>> \o str_interleave(s, new, i + 1)
\* The mutant of str.replace that stops after the first occurrence.
str_replace_first(s, old, new) ==
    LET pos == str_find(s, old, 0)
    IN  IF pos = -1 THEN s
        ELSE Slice(s, 0, pos) \o new \o Slice(s, pos + Len(old), Len(s))
str_replace(s, old, new) ==
    IF Len(old) = 0 THEN str_interleave(s, new, 1)
    ELSE str_replace_from(s, old, new, 0)

(***************************************************************************)
(* The regular expressions of the model: a pattern is a sequence of atoms, *)
(* each a literal character or "." (any character but newline); a pattern  *)
(* holding "(" does not compile (re.error).  re.escape(p) makes every      *)
(* character of p a literal atom.                                          *)
(***************************************************************************)
re_valid(p) == \A i \in 1..Len(p) : p[i] # "("

re_atom(pc, cc, escaped, ignorecase) ==
    IF pc = "." /\ ~escaped THEN cc # NL
    ELSE IF ignorecase THEN ReFoldChar(pc) = ReFoldChar(cc)
    ELSE pc = cc

re_match_at(s, p, pos, escaped, ignorecase) ==
    /\ pos + Len(p) <= Len(s)
    /\ \A i \in 1..Len(p) : re_atom(p[i], s[pos + i], escaped, ignorecase)

\* re.finditer: the spans <<start, end>> in scan order.  A pattern of the
\* model has a fixed width; the empty pattern matches at every offset.
RECURSIVE re_finditer(_, _, _, _, _)
re_finditer(s, p, pos, escaped, ignorecase) ==
    IF pos > Len(s) THEN <<>>
    ELSE IF re_match_at(s, p, pos, escaped, ignorecase)
    THEN <<<<pos, pos + Len(p)>>>>
         \o re_finditer(s, p, IF Len(p) = 0 THEN pos + 1 ELSE pos + Len(p),
                        escaped, ignorecase)
    ELSE re_finditer(s, p, pos + 1, escaped, ignorecase)

\* re.subn(p, repl, s): <<new string, number of substitutions>>.  The
\* replacement texts of the model hold no backslash, so the template is
\* the text itself.
RECURSIVE re_sub_build(_, _, _, _, _)
re_sub_build(s, spans, repl, k, from) ==
    IF k > Len(spans) THEN Slice(s, from, Len(s))
    ELSE Slice(s, from, spans[k][1]) \o repl
         \o re_sub_build(s, spans, repl, k + 1, spans[k][2])
re_subn(s, p, repl, escaped, ignorecase) ==
    LET spans == re_finditer(s, p, 0, escaped, ignorecase)
    IN  <<re_sub_build(s, spans, repl, 1, 0), Len(spans)>>

(***************************************************************************)
(* FileScanner.find_matches (scanner.py).  The result is                   *)
(* [term, matches]: term is FALSE when the while-loop never exits, and     *)
(* matches is the sequence of <<start, end, matched_text>>.                *)
(***************************************************************************)
\* The mutant of the loop that resumes one character after a hit.
find_matches_loop_step1(content, search_content, search_text, pattern_len, start, matches) ==
    LET RECURSIVE go(_, _)
        go(st, ms) ==
            LET pos == str_find(search_content, search_text, st)
            IN  IF pos = -1 THEN [term |-> TRUE, matches |-> ms]
                ELSE go(pos + 1,
                        Append(ms, <<pos, pos + pattern_len,
                                     Slice(content, pos, pos + pattern_len)>>))
    IN  go(start, matches)

\* The plain-text loop.  One iteration finds pos, appends the match and
\* sets start to pos + pattern_len.  start is the only loop-carried value
\* the exit test reads, so an iteration that leaves it unchanged repeats
\* for ever.
RECURSIVE find_matches_loop(_, _, _, _, _, _)
find_matches_loop(content, search_content, search_text, pattern_len, start, matches) ==
    LET pos == str_find(search_content, search_text, start)
    IN  IF pos = -1 THEN [term |-> TRUE, matches |-> matches]
        ELSE LET matched == Slice(content, pos, pos + pattern_len)
                 found == Append(matches, <<pos, pos + pattern_len, matched>>)
             IN  IF pos + pattern_len = start
                 THEN [term |-> FALSE, matches |-> found]
                 ELSE find_matches_loop(content, search_content, search_text,
                                        pattern_len, pos + pattern_len, found)

find_matches_literal(content, search_pattern, case_sensitive) ==
    LET search_text == IF case_sensitive THEN search_pattern ELSE lower(search_pattern)
        search_content == IF case_sensitive THEN content ELSE lower(content)
    IN  find_matches_loop(content, search_content, search_text,
                          Len(search_pattern), 0, <<>>)

find_matches(content, search_pattern, is_regex, case_sensitive) ==
    IF is_regex
    THEN IF re_valid(search_pattern)
         THEN LET spans == re_finditer(content, search_pattern, 0, FALSE, ~case_sensitive)
              IN  [term |-> TRUE,
                   matches |-> [k \in 1..Len(spans) |->
                       <<spans[k][1], spans[k][2],
                         Slice(content, spans[k][1], spans[k][2])>>]]
         ELSE [term |-> TRUE, matches |-> <<>>]
    ELSE find_matches_literal(content, search_pattern, case_sensitive)

(***************************************************************************)
(* apply_replacement, in its two copies.  The result is                    *)
(* [raised, content, count]; raised is TRUE when the call ends in an       *)
(* exception instead of returning.                                         *)
(***************************************************************************)
Returned(new_content, count) ==
    [raised |-> FALSE, content |-> new_content, count |-> count]

\* The plain-text branch, shared by the two copies.
apply_replacement_literal(content, search_pattern, replacement_text, case_sensitive) ==
    IF case_sensitive
    THEN Returned(str_replace(content, search_pattern, replacement_text),
                  str_count(content, search_pattern))
    ELSE LET r == re_subn(content, search_pattern, replacement_text, TRUE, TRUE)
         IN  Returned(r[1], r[2])

\* RefactorExecutor.apply_replacement (refactor.py): an invalid regex is
\* re-raised as ValueError.
RefactorExecutor_apply_replacement(content, search_pattern, replacement_text, is_regex, case_sensitive) ==
    IF is_regex
    THEN IF re_valid(search_pattern)
         THEN LET r == re_subn(content, search_pattern, replacement_text,
                               FALSE, ~case_sensitive)
              IN  Returned(r[1], r[2])
         ELSE [raised |-> TRUE, content |-> content, count |-> 0]
    ELSE apply_replacement_literal(content, search_pattern, replacement_text,
                                   case_sensitive)

\* The mutant of FileScanner.apply_replacement without its except clause:
\* an invalid regex raises.
FileScanner_apply_replacement_raising(content, search_pattern, replacement_text, is_regex, case_sensitive) ==
    IF is_regex /\ ~re_valid(search_pattern)
    THEN [raised |-> TRUE, content |-> content, count |-> 0]
    ELSE RefactorExecutor_apply_replacement(content, search_pattern, replacement_text,
                                            is_regex, case_sensitive)

\* FileScanner.apply_replacement (scanner.py): an invalid regex gives the
\* content back with count 0.
FileScanner_apply_replacement(content, search_pattern, replacement_text, is_regex, case_sensitive) ==
    IF is_regex
    THEN IF re_valid(search_pattern)
         THEN LET r == re_subn(content, search_pattern, replacement_text,
                               FALSE, ~case_sensitive)
              IN  Returned(r[1], r[2])
         ELSE Returned(content, 0)
    ELSE apply_replacement_literal(content, search_pattern, replacement_text,
                                   case_sensitive)

(***************************************************************************)
(* Extensions (scanner.py) and paths.  A path and a comma-separated        *)
(* extension list are sequences of characters.                             *)
(***************************************************************************)
\* Python's None, where the other values are sequences.
None == <<"None">>
Whitespace == {" ", NL, "cr"}

\* str.split(sep) for a one-character separator: the pieces, empty ones too.
RECURSIVE str_split(_, _)
str_split(s, sep) ==
    LET cuts == {i \in 1..Len(s) : s[i] = sep}
    IN  IF cuts = {} THEN <<s>>
        ELSE LET c == CHOOSE i \in cuts : \A j \in cuts : i <= j
             IN  <<SubSeq(s, 1, c - 1)>> \o str_split(SubSeq(s, c + 1, Len(s)), sep)

\* sep.join(parts)
RECURSIVE str_join(_, _)
str_join(sep, parts) ==
    IF parts = <<>> THEN <<>>
    ELSE IF Len(parts) = 1 THEN parts[1]
    ELSE parts[1] \o <<sep>> \o str_join(sep, Tail(parts))

\* str.strip()
RECURSIVE str_strip(_)
str_strip(s) ==
    IF s = <<>> THEN s
    ELSE IF s[1] \in Whitespace THEN str_strip(Tail(s))
    ELSE IF s[Len(s)] \in Whitespace THEN str_strip(SubSeq(s, 1, Len(s) - 1))
    ELSE s

_normalize_ext(ext) ==
    LET e == lower(str_strip(ext))
    IN  IF e # <<>> /\ e[1] # "." THEN <<".">> \o e ELSE e

_normalize_ext_set(ext_string) ==
    IF ext_string = None \/ ext_string = <<>> THEN {}
    ELSE LET parts == str_split(ext_string, ",")
         IN  {_normalize_ext(parts[i]) : i \in 1..Len(parts)} \ {<<>>}

\* os.path.splitext(p)[1]: from the last dot of the last path component,
\* unless only dots precede it there.
splitext_ext(p) ==
    LET seps == {i \in 1..Len(p) : p[i] = "/"}
        sepIndex == IF seps = {} THEN 0 ELSE CHOOSE i \in seps : \A j \in seps : j <= i
        dots == {i \in 1..Len(p) : p[i] = "."}
        dotIndex == IF dots = {} THEN 0 ELSE CHOOSE i \in dots : \A j \in dots : j <= i
    IN  IF dotIndex > sepIndex
           /\ \E j \in (sepIndex + 1)..(dotIndex - 1) : p[j] # "."
        THEN SubSeq(p, dotIndex, Len(p))
        ELSE <<>>

\* f"{file_path}.bak"
BakPath(file_path) == file_path \o <<".", "b", "a", "k">>

(***************************************************************************)
(* FileScanner.find_matches_with_context (scanner.py): [term, results],    *)
(* one tracking entry per match.                                           *)
(***************************************************************************)
\* line_starts: 0, then each line's start plus its length plus 1.
RECURSIVE line_starts_of(_, _, _)
line_starts_of(lines, k, acc) ==
    IF k > Len(lines) THEN acc
    ELSE line_starts_of(lines, k + 1, Append(acc, acc[Len(acc)] + Len(lines[k]) + 1))

\* The mutant of the binary search that stops at the first line start
\* not below the offset.
RECURSIVE bisect_line_left(_, _, _, _)
bisect_line_left(line_starts, start_pos, lo, hi) ==
    IF lo < hi
    THEN LET mid == (lo + hi) \div 2
         IN  IF line_starts[mid + 1] >= start_pos
             THEN bisect_line_left(line_starts, start_pos, lo, mid)
             ELSE bisect_line_left(line_starts, start_pos, mid + 1, hi)
    ELSE lo - 1

\* The binary search; line_starts is 0-indexed in the code.
RECURSIVE bisect_line(_, _, _, _)
bisect_line(line_starts, start_pos, lo, hi) ==
    IF lo < hi
    THEN LET mid == (lo + hi) \div 2
         IN  IF line_starts[mid + 1] > start_pos
             THEN bisect_line(line_starts, start_pos, lo, mid)
             ELSE bisect_line(line_starts, start_pos, mid + 1, hi)
    ELSE lo - 1

context_lines == 1

Min(a, b) == IF a < b THEN a ELSE b
Max(a, b) == IF a > b THEN a ELSE b

\* The entry of one match (start, end, text): its line by binary search over
\* line_starts, and the lines around it.
context_entry(m, lines, line_starts, replacement_text) ==
    LET line_num == bisect_line(line_starts, m[1], 0, Len(line_starts) - 1)
        ctx_start == Max(0, line_num - context_lines)
        ctx_end == Min(Len(lines), line_num + context_lines + 1)
    IN  [line_number |-> line_num + 1,
         original_text |-> m[3],
         replacement_text |-> replacement_text,
         context_snippet |-> str_join(NL, Slice(lines, ctx_start, ctx_end))]

\* The loop over the matches.
context_entries(found, lines, replacement_text) ==
    [term |-> found.term,
     results |-> [k \in 1..Len(found.matches) |->
                     context_entry(found.matches[k], lines,
                                   line_starts_of(lines, 1, <<0>>), replacement_text)]]

find_matches_with_context(content, search_pattern, replacement_text, is_regex, case_sensitive) ==
    context_entries(find_matches(content, search_pattern, is_regex, case_sensitive),
                    str_split(content, NL), replacement_text)

(***************************************************************************)
(* The file system.  A disk maps a path to File(bytes), or to Missing.     *)
(* Bytes are characters plus "cr" (carriage return).                       *)
(***************************************************************************)
Missing == [exists |-> FALSE, bytes |-> <<>>]
File(bytes) == [exists |-> TRUE, bytes |-> bytes]

Prefixes(bytes) == {SubSeq(bytes, 1, k) : k \in 0..Len(bytes)}

\* open(path, 'r', encoding='utf-8', errors='ignore').read(): universal
\* newlines turn "\r\n" and a lone "\r" into "\n".
RECURSIVE file_read_text(_)
file_read_text(bytes) ==
    IF bytes = <<>> THEN <<>>
    ELSE IF bytes[1] = "cr"
    THEN <<NL>> \o file_read_text(IF Len(bytes) >= 2 /\ bytes[2] = NL
                                  THEN SubSeq(bytes, 3, Len(bytes))
                                  ELSE Tail(bytes))
    ELSE <<bytes[1]>> \o file_read_text(Tail(bytes))

\* open(path, 'w', encoding='utf-8', newline='').write(text): no newline
\* translation; every character of the model encodes to itself.
file_write_bytes(text) == text

\* hashlib.sha256(bytes).hexdigest(), taken to be collision-free.
sha256(bytes) == <<"sha256", bytes>>

\* The mutant of the copy that goes through text mode.
copy2_text(d, src, dst, fails) ==
    IF ~fails THEN {[d EXCEPT ![dst] = File(file_read_text(d[src].bytes))]}
    ELSE {d} \cup {[d EXCEPT ![dst] = File(b)] : b \in Prefixes(d[src].bytes)}

\* shutil.copy2(src, dst): the disks the copy can leave.  A copy that
\* fails leaves dst as it was, or holding any prefix of the source
\* (the whole of it when only the metadata copy failed).
copy2(d, src, dst, fails) ==
    IF ~fails THEN {[d EXCEPT ![dst] = File(d[src].bytes)]}
    ELSE {d} \cup {[d EXCEPT ![dst] = File(b)] : b \in Prefixes(d[src].bytes)}

(***************************************************************************)
(* RefactorExecutor (refactor.py).                                         *)
(***************************************************************************)
create_backups == TRUE

\* The mutant of create_backup that lets the copy's exception escape.
create_backup_raising(d, file_path, fails) ==
    IF ~create_backups
    THEN {[disk |-> d, backup_path |-> None, raised |-> FALSE]}
    ELSE IF ~fails
    THEN {[disk |-> e, backup_path |-> BakPath(file_path), raised |-> FALSE] :
              e \in copy2(d, file_path, BakPath(file_path), FALSE)}
    ELSE {[disk |-> e, backup_path |-> None, raised |-> TRUE] :
              e \in copy2(d, file_path, BakPath(file_path), TRUE)}

\* The mutant of create_backup that keeps a backup that is already there.
create_backup_keep_existing(d, file_path, fails) ==
    IF ~create_backups
    THEN {[disk |-> d, backup_path |-> None, raised |-> FALSE]}
    ELSE IF d[BakPath(file_path)].exists
    THEN {[disk |-> d, backup_path |-> BakPath(file_path), raised |-> FALSE]}
    ELSE IF ~fails
    THEN {[disk |-> e, backup_path |-> BakPath(file_path), raised |-> FALSE] :
              e \in copy2(d, file_path, BakPath(file_path), FALSE)}
    ELSE {[disk |-> e, backup_path |-> None, raised |-> FALSE] :
              e \in copy2(d, file_path, BakPath(file_path), TRUE)}

\* create_backup: the outcomes [disk, backup_path, raised].
create_backup(d, file_path, fails) ==
    IF ~create_backups
    THEN {[disk |-> d, backup_path |-> None, raised |-> FALSE]}
    ELSE IF ~fails
    THEN {[disk |-> e, backup_path |-> BakPath(file_path), raised |-> FALSE] :
              e \in copy2(d, file_path, BakPath(file_path), FALSE)}
    ELSE {[disk |-> e, backup_path |-> None, raised |-> FALSE] :
              e \in copy2(d, file_path, BakPath(file_path), TRUE)}

\* Whether the rule is skipped for a file of this extension.
rule_skipped(rule, file_ext) ==
    LET target_exts == rule.target_extensions
    IN  /\ target_exts # None /\ target_exts # <<>>
        /\ lower(file_ext) \notin _normalize_ext_set(target_exts)

\* The tracking entries of one rule, stamped with rule_id and file_path.
stamp(entries, rule, file_path) ==
    [k \in 1..Len(entries) |->
        [line_number |-> entries[k].line_number,
         original_text |-> entries[k].original_text,
         replacement_text |-> entries[k].replacement_text,
         context_snippet |-> entries[k].context_snippet,
         rule_id |-> rule.rule_id,
         file_path |-> file_path]]

\* The mutant of the rule loop that collects every rule's tracking entries
\* against the content the loop started from.
RECURSIVE apply_rules_track_original(_, _, _, _, _, _, _)
apply_rules_track_original(file_path, file_ext, rule_list, k, modified_content, total_replacements, tracking) ==
    LET RECURSIVE go(_, _, _, _)
        go(j, cur, tot, trk) ==
            IF j > Len(rule_list)
            THEN [status |-> "ok", content |-> cur, total |-> tot, tracking |-> trk]
            ELSE IF rule_skipped(rule_list[j], file_ext) THEN go(j + 1, cur, tot, trk)
            ELSE LET rule == rule_list[j]
                     t == find_matches_with_context(modified_content,
                              rule.search_pattern, rule.replacement_text,
                              rule.is_regex, rule.case_sensitive)
                     a == RefactorExecutor_apply_replacement(cur,
                              rule.search_pattern, rule.replacement_text,
                              rule.is_regex, rule.case_sensitive)
                     trk2 == trk \o stamp(t.results, rule, file_path)
                 IN  IF ~t.term
                     THEN [status |-> "loops", content |-> cur, total |-> tot,
                           tracking |-> trk]
                     ELSE IF a.raised
                     THEN [status |-> "raised", content |-> cur, total |-> tot,
                           tracking |-> trk2]
                     ELSE go(j + 1, a.content, tot + a.count, trk2)
    IN  go(k, modified_content, total_replacements, tracking)

\* The rule loop of execute_replacement, from rule k on:
\* [status, content, total, tracking].  status is "ok" when the loop ends,
\* "raised" when apply_replacement raises ValueError, "loops" when
\* find_matches never returns.
\* One pass of the rule loop for a rule that applies, given what
\* find_matches_with_context (t) and apply_replacement (a) do on the
\* content so far: the loop's locals after it, and how the pass ended
\* ("loops": find_matches never returns; "raised": apply_replacement raised).
rule_pass(file_path, rule, modified_content, total_replacements, tracking, t, a) ==
    IF ~t.term
    THEN [status |-> "loops", content |-> modified_content,
          total |-> total_replacements, tracking |-> tracking]
    ELSE IF a.raised
    THEN [status |-> "raised", content |-> modified_content,
          total |-> total_replacements,
          tracking |-> tracking \o stamp(t.results, rule, file_path)]
    ELSE [status |-> "ok", content |-> a.content,
          total |-> total_replacements + a.count,
          tracking |-> tracking \o stamp(t.results, rule, file_path)]

\* The rule loop from rule k on, given the pass of rule k.
RECURSIVE apply_rules(_, _, _, _, _, _, _)
apply_rules_next(file_path, file_ext, rule_list, k, pass) ==
    IF pass.status # "ok" THEN pass
    ELSE apply_rules(file_path, file_ext, rule_list, k + 1, pass.content,
                     pass.total, pass.tracking)

\* for rule in rules: ... ; the loop from rule k on, with its locals.
apply_rules(file_path, file_ext, rule_list, k, modified_content, total_replacements, tracking) ==
    IF k > Len(rule_list)
    THEN [status |-> "ok", content |-> modified_content,
          total |-> total_replacements, tracking |-> tracking]
    ELSE IF rule_skipped(rule_list[k], file_ext)
    THEN apply_rules(file_path, file_ext, rule_list, k + 1, modified_content,
                     total_replacements, tracking)
    ELSE apply_rules_next(file_path, file_ext, rule_list, k,
             rule_pass(file_path, rule_list[k], modified_content,
                       total_replacements, tracking,
                       find_matches_with_context(modified_content,
                           rule_list[k].search_pattern, rule_list[k].replacement_text,
                           rule_list[k].is_regex, rule_list[k].case_sensitive),
                       RefactorExecutor_apply_replacement(modified_content,
                           rule_list[k].search_pattern, rule_list[k].replacement_text,
                           rule_list[k].is_regex, rule_list[k].case_sensitive)))

\* The result dict execute_replacement starts from.
new_result(file_path) ==
    [file_path |-> file_path, backup_path |-> None, original_hash |-> None,
     replacements_count |-> 0, success |-> FALSE, error |-> None,
     tracking |-> <<>>]

\* An outcome of the try block of execute_replacement: the disk it leaves
\* and the result dict so far; returns = FALSE when control never comes
\* back, raised = TRUE when an exception with message exc leaves the block;
\* fired: the injected faults it ran into; locals: where the rule loop
\* stood ([status, total, content] for total_replacements and
\* modified_content; status "unread" when the file was not read).
Outcome(d, result, returns, fired, locals) ==
    [disk |-> d, result |-> result, returns |-> returns, raised |-> FALSE,
     exc |-> None, fired |-> fired, locals |-> locals]
Raised(d, result, exc, fired, locals) ==
    [disk |-> d, result |-> result, returns |-> TRUE, raised |-> TRUE,
     exc |-> exc, fired |-> fired, locals |-> locals]
Unread == [status |-> "unread", total |-> 0, content |-> <<>>]

\* The mutant of the except clause that lets the exception escape.
except_handler_reraise(o) ==
    IF o.raised THEN Outcome(o.disk, o.result, FALSE, o.fired, o.locals) ELSE o

\* except Exception as e: result['error'] = str(e)
except_handler(o) ==
    IF o.raised
    THEN Outcome(o.disk, [o.result EXCEPT !.error = o.exc], TRUE, o.fired, o.locals)
    ELSE o

\* The mutant of the "no changes" test that never skips.
no_changes_never(total_replacements) == FALSE

\* if total_replacements == 0: the file is left alone.
no_changes(total_replacements) == total_replacements = 0

\* The write-back of execute_replacement: open(file_path, 'w') and write.
\* A failing write leaves the file as it was (open failed) or holding any
\* prefix of the new bytes.
write_back(d, file_path, modified_content, fails) ==
    LET bytes == file_write_bytes(modified_content)
    IN  IF ~fails THEN {[d EXCEPT ![file_path] = File(bytes)]}
        ELSE {d} \cup {[d EXCEPT ![file_path] = File(b)] : b \in Prefixes(bytes)}

FaultKinds == {"read", "backup", "write"}

\* The try block after the rule loop, given the loop's outcome: the
\* "no changes" return, or the backup and the write.
after_rules(d, file_path, faults, result1, loop, locals) ==
    IF loop.status = "loops"
    \* find_matches appends for ever: the call never returns, or memory
    \* runs out and MemoryError (whose str() is empty) is raised.
    THEN {Outcome(d, [result1 EXCEPT !.tracking = loop.tracking], FALSE, {}, locals),
          Raised(d, [result1 EXCEPT !.tracking = loop.tracking], <<>>, {}, locals)}
    ELSE IF loop.status = "raised"
    THEN {Raised(d, [result1 EXCEPT !.tracking = loop.tracking],
                 <<"Invalid regex pattern">>, {}, locals)}
    ELSE IF no_changes(loop.total)
    THEN {Outcome(d, [result1 EXCEPT !.tracking = loop.tracking, !.success = TRUE],
                  TRUE, {}, locals)}
    ELSE UNION {
        IF b.raised
        THEN {Raised(b.disk, [result1 EXCEPT !.tracking = loop.tracking],
                     <<"backup failed">>, faults \cap {"backup"}, locals)}
        ELSE IF "write" \in faults
        THEN {Raised(e, [result1 EXCEPT !.tracking = loop.tracking,
                                        !.backup_path = b.backup_path],
                     <<"write failed">>, faults \cap {"backup", "write"}, locals) :
                 e \in write_back(b.disk, file_path, loop.content, TRUE)}
        ELSE {Outcome(e, [result1 EXCEPT !.tracking = loop.tracking,
                                         !.backup_path = b.backup_path,
                                         !.replacements_count = loop.total,
                                         !.success = TRUE],
                      TRUE, faults \cap {"backup"}, locals) :
                 e \in write_back(b.disk, file_path, loop.content, FALSE)}
        : b \in create_backup(d, file_path, "backup" \in faults)}

\* Where the rule loop stood when it ended.
locals_of(loop) ==
    [status |-> loop.status, total |-> loop.total, content |-> loop.content]

\* The try block from the rule loop on, the file having been read.
rules_and_write(d, file_path, faults, result1, loop) ==
    after_rules(d, file_path, faults, result1, loop, locals_of(loop))

\* The try block of execute_replacement(file_path, rules) on disk d, with
\* the I/O faults in faults injected: the set of outcomes.
execute_replacement_try(d, file_path, rule_list, faults) ==
    IF ~d[file_path].exists \/ "read" \in faults
    THEN {Raised(d, new_result(file_path), <<"read failed">>,
                 faults \cap {"read"}, Unread)}
    ELSE rules_and_write(d, file_path, faults,
             [new_result(file_path) EXCEPT
                 !.original_hash = sha256(d[file_path].bytes)],
             apply_rules(file_path, splitext_ext(file_path), rule_list, 1,
                         file_read_text(d[file_path].bytes), 0, <<>>))

\* execute_replacement: the try block, and the except clause on what it raises.
execute_replacement(d, file_path, rule_list, faults) ==
    {except_handler(o) : o \in execute_replacement_try(d, file_path, rule_list, faults)}

\* The summary execute_batch starts from.
new_summary(paths) ==
    [total_files |-> Len(paths), files_modified |-> 0, total_replacements |-> 0,
     files |-> <<>>, errors |-> <<>>, tracking |-> <<>>]

\* The mutant of the loop body that counts every successful file as modified.
batch_add_count_success(summary, file_path, result) ==
    [summary EXCEPT
        !.files = Append(@, result),
        !.files_modified = IF result.success THEN @ + 1 ELSE @,
        !.total_replacements = IF result.success THEN @ + result.replacements_count ELSE @,
        !.errors = IF result.error \notin {None, <<>>}
                   THEN Append(@, <<file_path, result.error>>) ELSE @,
        !.tracking = @ \o result.tracking]

\* The body of the loop of execute_batch after the call: the summary with
\* one more result.  The error entry f"{file_path}: {error}" is a pair.
batch_add(summary, file_path, result) ==
    LET counted == result.success /\ result.replacements_count > 0
    IN  [summary EXCEPT
            !.files = Append(@, result),
            !.files_modified = IF counted THEN @ + 1 ELSE @,
            !.total_replacements = IF counted THEN @ + result.replacements_count ELSE @,
            !.errors = IF result.error \notin {None, <<>>}
                       THEN Append(@, <<file_path, result.error>>) ELSE @,
            !.tracking = @ \o result.tracking]

\* The mutant of restore_from_backup that reports success whatever the copy did.
restore_from_backup_optimistic(d, file_path, fails) ==
    LET backup_path == BakPath(file_path)
    IN  IF ~d[backup_path].exists
        THEN {[disk |-> d, ret |-> FALSE, fired |-> {}]}
        ELSE {[disk |-> e, ret |-> TRUE, fired |-> IF fails THEN {"copy"} ELSE {}] :
                 e \in copy2(d, backup_path, file_path, fails)}

\* restore_from_backup(file_path) on disk d: the outcomes [disk, ret, fired].
restore_from_backup(d, file_path, fails) ==
    LET backup_path == BakPath(file_path)
    IN  IF ~d[backup_path].exists
        THEN {[disk |-> d, ret |-> FALSE, fired |-> {}]}
        ELSE IF ~fails
        THEN {[disk |-> e, ret |-> TRUE, fired |-> {}] :
                 e \in copy2(d, backup_path, file_path, FALSE)}
        ELSE {[disk |-> e, ret |-> FALSE, fired |-> {"copy"}] :
                 e \in copy2(d, backup_path, file_path, TRUE)}

Contents == SeqsUpTo(ContentChars, MaxContentLen)
Patterns == SeqsUpTo(PatternChars, MaxPatternLen)
ReplTexts == SeqsUpTo(ReplChars, MaxReplLen)

(***************************************************************************)
(* State.                                                                  *)
(*   call, ret    the arguments and results of one call of the matching    *)
(*                functions (specification SpecMatch)                      *)
(*   disk         the file system                                          *)
(*   pc           "idle", or "batch" while execute_batch is in its loop    *)
(*   file_paths, rules, idx, summary                                       *)
(*                the arguments and locals of execute_batch; after the     *)
(*                return, summary is the value returned                    *)
(*   stuck        the process is inside a call that never returns          *)
(*   oplog        history: one record per execute_replacement call and per *)
(*                restore_from_backup call, with the file and its backup   *)
(*                before and after, and where the call's rule loop stood   *)
(*   nfaults      history: the I/O faults injected so far                  *)
(*   nbatches     history: the calls of execute_batch so far               *)
(***************************************************************************)
VARIABLES call, ret, disk, pc, file_paths, rules, idx, summary, stuck, oplog,
          nfaults, nbatches, api, scanner, walk, scan

vars == <<call, ret, disk, pc, file_paths, rules, idx, summary, stuck, oplog,
          nfaults, nbatches, api, scanner, walk, scan>>
\* The state of the endpoints (api), the FileScanner object (scanner), the
\* state of a directory walk (walk) and of the scan stream (scan); each is
\* a record, described where it is used.
restVars == <<api, scanner, walk, scan>>
execVars == <<disk, pc, file_paths, rules, idx, summary, stuck, oplog, nfaults,
              nbatches>>

NoCall == [content |-> <<>>, search_pattern |-> <<>>, replacement_text |-> <<>>,
           is_regex |-> FALSE, case_sensitive |-> TRUE]
NoRet == [done |-> FALSE]

(***************************************************************************)
(* The files and rules of the executor specification.                      *)
(***************************************************************************)
MaxOps == 3
MaxBatches == 2
MaxFaults == 1
MaxBatchFiles == 3

P1 == <<"a", ".", "c", "s">>
P2 == <<"b", ".", "C", "S">>
P3 == <<"c", ".", "s", "q", "l">>
Paths == {P1, P2, P3}
AllPaths == Paths \cup {BakPath(f) : f \in Paths}

Rule(id, search, replacement, regex, cs, exts) ==
    [rule_id |-> id, search_pattern |-> search, replacement_text |-> replacement,
     is_regex |-> regex, case_sensitive |-> cs, target_extensions |-> exts]

rule_newline == Rule(1, <<"s">>, <<NL>>, FALSE, TRUE, None)
rule_lower == Rule(2, <<"S">>, <<"s">>, FALSE, TRUE, None)
rule_cs_only == Rule(3, <<"s">>, <<"S">>, FALSE, TRUE, <<" ", "C", "S">>)
rule_bad_regex == Rule(4, <<"(">>, <<>>, TRUE, TRUE, None)
rule_empty == Rule(5, <<>>, <<"s">>, FALSE, TRUE, None)
rule_blank == Rule(6, <<NL>>, <<>>, FALSE, TRUE, None)
rule_nocase == Rule(7, <<"s">>, <<>>, FALSE, FALSE, None)

RuleLists ==
    {<<rule_newline>>, <<rule_newline, rule_lower>>, <<rule_lower, rule_newline>>,
     <<rule_cs_only>>, <<rule_lower, rule_bad_regex>>, <<rule_empty>>,
     <<rule_blank>>, <<rule_nocase>>}

\* The path lists of a batch: non-empty, without repetition.
PathLists ==
    {q \in SeqsUpTo(Paths, MaxBatchFiles) \ {<<>>} :
        \A i, j \in 1..Len(q) : i # j => q[i] # q[j]}

\* The files at the start: no backup yet; the second file has a CRLF line end.
InitDisk ==
    [f \in AllPaths |->
        IF f = P1 THEN File(<<"s", "S">>)
        ELSE IF f = P2 THEN File(<<"S", "cr", NL, "s">>)
        ELSE IF f = P3 THEN File(<<"S", LONG_S, "s">>)
        ELSE Missing]

ExecIdle ==
    /\ pc = "idle" /\ file_paths = <<>> /\ rules = <<>> /\ idx = 0
    /\ summary = new_summary(<<>>) /\ stuck = FALSE /\ oplog = <<>> /\ nfaults = 0
    /\ nbatches = 0

\* No request handled yet, no walk and no scan started.
\* An HTTP response: status, message, and the path the message names.
Http(status, msg, path) == [status |-> status, msg |-> msg, path |-> path]
ApiIdle ==
    [http |-> Http(0, "", <<>>), history |-> <<>>, touched |-> {}, nreq |-> 0,
     request |-> [rule_ids |-> {}, file_paths |-> <<>>],
     result |-> new_summary(<<>>), before |-> [f \in {} |-> Missing]]
ScannerIdle ==
    [include_extensions |-> {}, exclude_extensions |-> {}, exclude_folders |-> {}]
WalkIdle ==
    [ncalls |-> 0, root |-> None, files |-> <<>>, visited |-> <<>>,
     asked |-> None, answer |-> FALSE]
ScanIdle ==
    [gen |-> "none", consumer |-> "none", rule_ids |-> {}, root_paths |-> <<>>,
     processed_rules |-> <<>>, files_to_scan |-> <<>>, total_files |-> 0, k |-> 0,
     seen_files |-> {}, trace |-> <<>>, at_stop |-> <<>>, nfaults |-> 0, nscans |-> 0]
RestIdle ==
    api = ApiIdle /\ scanner = ScannerIdle /\ walk = WalkIdle /\ scan = ScanIdle

\* The arguments of a call, drawn from the bounded sets.
InitMatch ==
    /\ call \in [content : Contents, search_pattern : Patterns,
                 replacement_text : ReplTexts,
                 is_regex : BOOLEAN, case_sensitive : BOOLEAN]
    /\ ret = NoRet
    /\ disk = [f \in AllPaths |-> Missing]
    /\ ExecIdle
    /\ RestIdle

\* One call of find_matches, of find_matches_with_context and of both
\* apply_replacement copies on the same arguments, and of the executor's apply_replacement on its own output.
CallMatch ==
    /\ ~ret.done
    /\ LET c == call.content
           p == call.search_pattern
           r == call.replacement_text
           ex == RefactorExecutor_apply_replacement(c, p, r, call.is_regex,
                                                    call.case_sensitive)
       IN  ret' = [done |-> TRUE,
                   found |-> find_matches(c, p, call.is_regex, call.case_sensitive),
                   executor |-> ex,
                   scanner |-> FileScanner_apply_replacement(c, p, r, call.is_regex,
                                                             call.case_sensitive),
                   context |-> find_matches_with_context(c, p, r, call.is_regex,
                                                         call.case_sensitive),
                   again |-> RefactorExecutor_apply_replacement(
                                 ex.content, p, r, call.is_regex, call.case_sensitive)]
    /\ UNCHANGED <<call, execVars, restVars>>

NextMatch == CallMatch

SpecMatch == InitMatch /\ [][NextMatch]_vars

(***************************************************************************)
(* The executor: execute_batch as its loop, and restore_from_backup.       *)
(***************************************************************************)
Init ==
    /\ call = NoCall /\ ret = NoRet
    /\ disk = InitDisk
    /\ ExecIdle
    /\ RestIdle

\* execute_batch(file_paths, rules) is called: the summary is set up.
execute_batch_call(paths, rule_list) ==
    /\ pc = "idle" /\ ~stuck
    /\ nbatches < MaxBatches
    /\ Len(oplog) + Len(paths) <= MaxOps
    /\ pc' = "batch" /\ nbatches' = nbatches + 1
    /\ file_paths' = paths /\ rules' = rule_list /\ idx' = 1
    /\ summary' = new_summary(paths)
    /\ UNCHANGED <<call, ret, disk, stuck, oplog, nfaults, restVars>>

\* One iteration of the loop of execute_batch: execute_replacement on the
\* next path, and the summary updated with its result.
execute_batch_step(faults) ==
    /\ pc = "batch" /\ ~stuck /\ idx <= Len(file_paths)
    /\ nfaults + Cardinality(faults) <= MaxFaults
    /\ LET file_path == file_paths[idx]
       IN  \E o \in execute_replacement(disk, file_path, rules, faults) :
              /\ o.fired = faults
              /\ disk' = o.disk
              /\ oplog' = Append(oplog,
                     [op |-> "exec", batch |-> nbatches, index |-> idx,
                      path |-> file_path, rules |-> rules,
                      pre |-> disk[file_path], prebak |-> disk[BakPath(file_path)],
                      post |-> o.disk[file_path],
                      postbak |-> o.disk[BakPath(file_path)],
                      faults |-> faults, returns |-> o.returns,
                      result |-> o.result, locals |-> o.locals])
              /\ IF o.returns
                 THEN /\ summary' = batch_add(summary, file_path, o.result)
                      /\ idx' = idx + 1
                      /\ stuck' = FALSE
                 ELSE /\ stuck' = TRUE
                      /\ UNCHANGED <<summary, idx>>
    /\ nfaults' = nfaults + Cardinality(faults)
    /\ UNCHANGED <<call, ret, pc, file_paths, rules, nbatches, restVars>>

\* The loop is over: execute_batch returns the summary.
execute_batch_return ==
    /\ pc = "batch" /\ ~stuck /\ idx > Len(file_paths)
    /\ pc' = "idle"
    /\ UNCHANGED <<call, ret, disk, file_paths, rules, idx, summary, stuck,
                   oplog, nfaults, nbatches, restVars>>

\* restore_from_backup(file_path) is called.
restore(file_path, fails) ==
    /\ pc = "idle" /\ ~stuck
    /\ Len(oplog) < MaxOps
    /\ nfaults + (IF fails THEN 1 ELSE 0) <= MaxFaults
    /\ \E o \in restore_from_backup(disk, file_path, fails) :
          /\ (o.fired # {}) = fails
          /\ disk' = o.disk
          /\ oplog' = Append(oplog,
                 [op |-> "restore", path |-> file_path,
                  pre |-> disk[file_path], prebak |-> disk[BakPath(file_path)],
                  post |-> o.disk[file_path],
                  postbak |-> o.disk[BakPath(file_path)],
                  fails |-> fails, ret |-> o.ret])
    /\ nfaults' = nfaults + (IF fails THEN 1 ELSE 0)
    /\ UNCHANGED <<call, ret, pc, file_paths, rules, idx, summary, stuck, nbatches,
                   restVars>>

Next ==
    \/ \E paths \in PathLists, rule_list \in RuleLists :
          execute_batch_call(paths, rule_list)
    \/ \E faults \in SUBSET FaultKinds : execute_batch_step(faults)
    \/ execute_batch_return
    \/ \E f \in Paths, fails \in BOOLEAN : restore(f, fails)

Spec == Init /\ [][Next]_vars

(***************************************************************************)
(* The execute endpoint (main.py): execute_refactor as one step.           *)
(*   api.http      the last response                                       *)
(*   api.history   the ExecutionHistory rows, oldest first                 *)
(*   api.touched   history: the paths handed to the executor so far        *)
(*   api.nreq      history: the number of requests handled                 *)
(*   api.request   history: the last request                               *)
(*   api.result    history: the summary execute_batch last returned        *)
(*   api.before    history: the disk before the last request               *)
(***************************************************************************)
MaxRequests == 2
MaxRequestFiles == 2

\* The replacement_rules table: rule 3 is not active, rule 4 is an
\* invalid regex.
DbRules ==
    <<[rule |-> rule_newline, is_active |-> TRUE],
      [rule |-> rule_lower, is_active |-> TRUE],
      [rule |-> rule_cs_only, is_active |-> FALSE],
      [rule |-> rule_bad_regex, is_active |-> TRUE],
      [rule |-> rule_blank, is_active |-> TRUE]>>
RuleIds == {DbRules[i].rule.rule_id : i \in 1..Len(DbRules)}

\* The query: the active rules whose id is among rule_ids, in table order.
RECURSIVE query_active_rules(_, _)
query_active_rules(rule_ids, i) ==
    IF i > Len(DbRules) THEN <<>>
    ELSE (IF DbRules[i].rule.rule_id \in rule_ids /\ DbRules[i].is_active
          THEN <<DbRules[i].rule>> ELSE <<>>)
         \o query_active_rules(rule_ids, i + 1)

\* os.path.isfile
isfile(d, path) == path \in DOMAIN d /\ d[path].exists

\* The mutant of the validation that does not look at the files.
validate_request_no_file_check(d, rule_list, paths) ==
    IF rule_list = <<>> THEN Http(400, "No active rules found", <<>>)
    ELSE IF paths = <<>> THEN Http(400, "No files selected for refactoring", <<>>)
    ELSE Http(0, "", <<>>)

\* The checks execute_refactor makes before it executes: the 400 response
\* it raises, or status 0 when the request passes.
validate_request(d, rule_list, paths) ==
    IF rule_list = <<>> THEN Http(400, "No active rules found", <<>>)
    ELSE IF paths = <<>> THEN Http(400, "No files selected for refactoring", <<>>)
    ELSE LET missing == {i \in 1..Len(paths) : ~isfile(d, paths[i])}
         IN  IF missing = {} THEN Http(0, "", <<>>)
             ELSE Http(400, "File not found",
                       paths[CHOOSE i \in missing : \A j \in missing : i <= j])

\* execute_batch as a whole, from the k-th path on: the [disk, summary]
\* pairs it can return with (none when a call never returns).
RECURSIVE execute_batch_from(_, _, _, _, _)
execute_batch_from(d, paths, rule_list, k, summ) ==
    IF k > Len(paths) THEN {[disk |-> d, summary |-> summ]}
    ELSE UNION {
        IF o.returns
        THEN execute_batch_from(o.disk, paths, rule_list, k + 1,
                                batch_add(summ, paths[k], o.result))
        ELSE {}
        : o \in execute_replacement(d, paths[k], rule_list, {})}

execute_batch(d, paths, rule_list) ==
    execute_batch_from(d, paths, rule_list, 1, new_summary(paths))

\* The ExecutionHistory row of one execution, with its ModifiedFile rows.
history_record(rule_list, paths, result) ==
    [rule_id |-> rule_list[1].rule_id,
     total_files_scanned |-> Len(paths),
     total_files_modified |-> result.files_modified,
     total_replacements |-> result.total_replacements,
     status |-> IF result.errors = <<>> THEN "completed" ELSE "partial",
     modified_files |-> SelectSeq(result.files,
                                  LAMBDA r : r.replacements_count > 0)]

\* The request after validation: the batch, the history row, the response.
execute_refactor_run(rule_ids, paths, rule_list, v) ==
    IF v.status # 0
    THEN /\ api' = [api EXCEPT !.http = v, !.nreq = @ + 1,
                               !.request = [rule_ids |-> rule_ids,
                                            file_paths |-> paths],
                               !.before = disk]
         /\ disk' = disk
    ELSE \E o \in execute_batch(disk, paths, rule_list) :
            /\ disk' = o.disk
            /\ api' = [http |-> Http(200, IF o.summary.errors = <<>>
                                          THEN "completed" ELSE "partial", <<>>),
                       history |-> Append(api.history,
                                      history_record(rule_list, paths, o.summary)),
                       touched |-> api.touched \cup {paths[i] : i \in 1..Len(paths)},
                       nreq |-> api.nreq + 1,
                       request |-> [rule_ids |-> rule_ids, file_paths |-> paths],
                       result |-> o.summary,
                       before |-> disk]

\* POST /api/execute with rule_ids and file_paths.
execute_refactor(rule_ids, paths) ==
    /\ api.nreq < MaxRequests
    /\ execute_refactor_run(rule_ids, paths, query_active_rules(rule_ids, 1),
           validate_request(disk, query_active_rules(rule_ids, 1), paths))
    /\ UNCHANGED <<call, ret, pc, file_paths, rules, idx, summary, stuck, oplog,
                   nfaults, nbatches, scanner, walk, scan>>

\* The third file does not exist.
InitApi ==
    /\ call = NoCall /\ ret = NoRet
    /\ disk = [InitDisk EXCEPT ![P3] = Missing]
    /\ ExecIdle
    /\ RestIdle

NextApi ==
    \E rule_ids \in SUBSET RuleIds, paths \in SeqsUpTo(Paths, MaxRequestFiles) :
        execute_refactor(rule_ids, paths)

SpecApi == InitApi /\ [][NextApi]_vars

(***************************************************************************)
(* FileScanner's file filter and directory walk (scanner.py).  A path is   *)
(* a sequence of characters with "/" between its components.               *)
(*   scanner       the FileScanner object: its three normalized sets       *)
(*   walk.root, walk.files, walk.visited                                   *)
(*                 the last scan_directory call: its root, the paths it    *)
(*                 yielded in order, and (history) the directories that    *)
(*                 os.walk listed                                          *)
(*   walk.asked, walk.answer                                               *)
(*                 the last should_include_file call and its result        *)
(*   walk.ncalls   history: the number of calls made                       *)
(***************************************************************************)
MaxWalkCalls == 2

ALWAYS_EXCLUDE_FOLDERS ==
    {<<".", "g", "i", "t">>, <<".", "v", "s">>, <<".", "i", "d", "e", "a">>,
     <<"_", "_", "p", "y", "c", "a", "c", "h", "e", "_", "_">>,
     <<".", "s", "v", "n">>, <<".", "h", "g">>}

\* _parse_folders: the stripped, lowercased, non-empty pieces.
_parse_folders(folder_string) ==
    IF folder_string = None \/ folder_string = <<>> THEN {}
    ELSE {lower(str_strip(str_split(folder_string, ",")[i])) :
             i \in {j \in 1..Len(str_split(folder_string, ",")) :
                       str_strip(str_split(folder_string, ",")[j]) # <<>>}}

\* FileScanner.__init__
FileScanner_init(include_extensions, exclude_extensions, exclude_folders) ==
    [include_extensions |-> _normalize_ext_set(include_extensions),
     exclude_extensions |-> _normalize_ext_set(exclude_extensions),
     exclude_folders |-> _parse_folders(exclude_folders) \cup ALWAYS_EXCLUDE_FOLDERS]

\* The mutant of the file filter in which inclusion is looked at first.
should_include_file_include_first(self, file_path) ==
    IF lower(splitext_ext(file_path)) \in self.include_extensions THEN TRUE
    ELSE IF lower(splitext_ext(file_path)) \in self.exclude_extensions THEN FALSE
    ELSE self.include_extensions = {}

\* FileScanner.should_include_file
should_include_file(self, file_path) ==
    IF lower(splitext_ext(file_path)) \in self.exclude_extensions THEN FALSE
    ELSE IF self.include_extensions # {}
    THEN lower(splitext_ext(file_path)) \in self.include_extensions
    ELSE TRUE

\* FileScanner.should_exclude_folder
should_exclude_folder(self, folder_name) == lower(folder_name) \in self.exclude_folders

\* The mutant of the pruning that compares folder names as they are spelled.
prune_dirnames_as_spelled(self, dirnames) ==
    SelectSeq(dirnames, LAMBDA d : d \notin self.exclude_folders /\ d[1] # ".")

\* dirnames[:] = [d for d in dirnames if not excluded and not d.startswith('.')]
prune_dirnames(self, dirnames) ==
    SelectSeq(dirnames, LAMBDA d : ~should_exclude_folder(self, d) /\ d[1] # ".")

\* os.path.join(dirpath, name)
path_join(dirpath, name) == dirpath \o <<"/">> \o name

\* The names of the directory tree.
N_r == <<"r">>
N_src == <<"s", "r", "c">>
N_git == <<".", "g", "i", "t">>
N_pyc == <<"_", "_", "p", "y", "C", "a", "C", "h", "e", "_", "_">>
N_Sc == <<"S", "c">>
N_dot == <<".", "s">>
N_d == <<"d">>

\* The directory tree: what os.walk lists in each directory.
\*   r/        a.cs  d   src/  .git/  Sc/  .s/
\*   r/src/    b.CS  c.sql  __pyCaChe__/
\*   r/src/__pyCaChe__/  a.cs
\*   r/.git/   a.cs  src/          r/.git/src/  a.cs
\*   r/Sc/     a.cs                r/.s/        a.cs
Dir(dirnames, filenames) == [dirnames |-> dirnames, filenames |-> filenames]
Tree ==
    (N_r :> Dir(<<N_src, N_git, N_Sc, N_dot>>, <<P1, N_d>>))
    @@ (path_join(N_r, N_src) :> Dir(<<N_pyc>>, <<P2, P3>>))
    @@ (path_join(path_join(N_r, N_src), N_pyc) :> Dir(<<>>, <<P1>>))
    @@ (path_join(N_r, N_git) :> Dir(<<N_src>>, <<P1>>))
    @@ (path_join(path_join(N_r, N_git), N_src) :> Dir(<<>>, <<P1>>))
    @@ (path_join(N_r, N_Sc) :> Dir(<<>>, <<P1>>))
    @@ (path_join(N_r, N_dot) :> Dir(<<>>, <<P1>>))

\* os.path.isdir
isdir(path) == path \in DOMAIN Tree

\* All files of the tree.
TreeFiles ==
    UNION {{path_join(dp, Tree[dp].filenames[i]) : i \in 1..Len(Tree[dp].filenames)} :
              dp \in DOMAIN Tree}

\* The files of one directory that pass the filter, as paths, in order.
files_here(self, dirpath, filenames) ==
    SelectSeq([i \in 1..Len(filenames) |-> path_join(dirpath, filenames[i])],
              LAMBDA f : should_include_file(self, f))

\* for dirpath, dirnames, filenames in os.walk(root_path): top-down, the
\* sub-directories that are left in dirnames after the pruning, in order.
\* [files, visited]: the paths yielded and the directories listed.
RECURSIVE os_walk(_, _)
RECURSIVE os_walk_subdirs(_, _, _, _)
os_walk_subdirs(self, dirpath, kept, k) ==
    IF k > Len(kept) THEN [files |-> <<>>, visited |-> <<>>]
    ELSE [files |-> os_walk(self, path_join(dirpath, kept[k])).files
                    \o os_walk_subdirs(self, dirpath, kept, k + 1).files,
          visited |-> os_walk(self, path_join(dirpath, kept[k])).visited
                      \o os_walk_subdirs(self, dirpath, kept, k + 1).visited]
os_walk(self, dirpath) ==
    [files |-> files_here(self, dirpath, Tree[dirpath].filenames)
               \o os_walk_subdirs(self, dirpath,
                      prune_dirnames(self, Tree[dirpath].dirnames), 1).files,
     visited |-> <<dirpath>>
                 \o os_walk_subdirs(self, dirpath,
                        prune_dirnames(self, Tree[dirpath].dirnames), 1).visited]

\* FileScanner.scan_directory, run to its end.
scan_directory(self, root_path) ==
    IF ~isdir(root_path) THEN [files |-> <<>>, visited |-> <<>>]
    ELSE os_walk(self, root_path)

\* The configurations: include ".cs" / "CS, .sql" / none, exclude ".cs" /
\* ".sql" / none, folders "sc" / " SC ,," / none.
IncludeConfigs ==
    {None, <<>>, <<".", "c", "s">>, <<"C", "S", ",", " ", ".", "s", "q", "l">>}
ExcludeConfigs == {None, <<".", "c", "s">>, <<"s", "q", "l">>}
FolderConfigs == {None, <<"s", "c">>, <<" ", "S", "C", " ", ",", ",">>}
RootPaths == {N_r, path_join(N_r, N_src), path_join(N_r, N_dot), <<"x">>}

InitWalk ==
    /\ call = NoCall /\ ret = NoRet
    /\ disk = InitDisk
    /\ ExecIdle
    /\ api = ApiIdle /\ walk = WalkIdle /\ scan = ScanIdle
    /\ scanner \in {FileScanner_init(i, e, f) :
                       i \in IncludeConfigs, e \in ExcludeConfigs, f \in FolderConfigs}

\* scanner.scan_directory(root_path), consumed to its end.
scan_directory_call(root_path) ==
    /\ walk.ncalls < MaxWalkCalls
    /\ walk' = [walk EXCEPT !.ncalls = @ + 1, !.root = root_path,
                            !.files = scan_directory(scanner, root_path).files,
                            !.visited = scan_directory(scanner, root_path).visited]
    /\ UNCHANGED <<call, ret, execVars, api, scanner, scan>>

\* scanner.should_include_file(file_path)
should_include_file_call(file_path) ==
    /\ walk.ncalls < MaxWalkCalls
    /\ walk' = [walk EXCEPT !.ncalls = @ + 1, !.asked = file_path,
                            !.answer = should_include_file(scanner, file_path)]
    /\ UNCHANGED <<call, ret, execVars, api, scanner, scan>>

NextWalk ==
    \/ \E root_path \in RootPaths : scan_directory_call(root_path)
    \/ \E file_path \in TreeFiles : should_include_file_call(file_path)

SpecWalk == InitWalk /\ [][NextWalk]_vars

(***************************************************************************)
(* The scan stream: scan_files_with_rules (scanner.py) as a generator,     *)
(* consumed by dry_run_scan's event_generator (main.py).                   *)
(*   scan.gen         where the generator is suspended: "unstarted",       *)
(*                    "progress" (at the progress yield), "match" (at the  *)
(*                    match yield), "done" (exhausted), "closed";          *)
(*                    "none" before any scan                               *)
(*   scan.consumer    "consuming" or "stopped"                             *)
(*   scan.processed_rules, files_to_scan, total_files, seen_files          *)
(*                    the generator's locals; k is idx + 1                 *)
(*   scan.trace       history: the events yielded and the file reads, in   *)
(*                    the order they happened                              *)
(*   scan.at_stop     history: the trace when the consumer stopped         *)
(***************************************************************************)
MaxScans == 1
MaxScanFaults == 1

\* One entry of the trace: a yielded event ("progress", "match", "error")
\* or a read of a file's content ("read", ok = FALSE when open failed).
\* diff is <<content read>> in a read entry and <<original, modified>>,
\* the two texts of the diff, in a match entry.
Entry(kind, path, scanned, total, match_count, ok, diff) ==
    [kind |-> kind, path |-> path, scanned |-> scanned, total |-> total,
     match_count |-> match_count, ok |-> ok, diff |-> diff]

\* One processed rule: the rule, whether its pattern compiled, and its
\* normalized target extensions (empty when there are none).
process_rule(rule) ==
    [rule |-> rule,
     _compiled |-> IF rule.is_regex THEN re_valid(rule.search_pattern)
                   ELSE ~rule.case_sensitive,
     _normalized_exts |-> IF rule.target_extensions \in {None, <<>>} THEN {}
                          ELSE _normalize_ext_set(rule.target_extensions)]

\* files_to_scan: (file_path, root_path) for every root in order.
RECURSIVE collect_files(_, _, _)
collect_files(self, root_paths, i) ==
    IF i > Len(root_paths) THEN <<>>
    ELSE [j \in 1..Len(scan_directory(self, root_paths[i]).files) |->
             [file_path |-> scan_directory(self, root_paths[i]).files[j],
              root_path |-> root_paths[i]]]
         \o collect_files(self, root_paths, i + 1)

\* The body of the rule loop for one rule, given what apply_replacement
\* returned (r): the locals after it; raised when the call ended in an
\* exception, which leaves the loop and the generator.
scan_rule_pass(acc, r) ==
    IF r.raised THEN [acc EXCEPT !.raised = TRUE]
    ELSE IF r.count > 0
    THEN [content |-> r.content, match_count |-> acc.match_count + r.count,
          matches_found |-> TRUE, raised |-> FALSE]
    ELSE acc

\* for prule in processed_rules: ... from rule i on.
RECURSIVE scan_apply_rules(_, _, _, _)
scan_apply_rules(prules, i, file_ext_lower, acc) ==
    IF i > Len(prules) \/ acc.raised THEN acc
    ELSE IF prules[i]._normalized_exts # {}
            /\ file_ext_lower \notin prules[i]._normalized_exts
    THEN scan_apply_rules(prules, i + 1, file_ext_lower, acc)
    ELSE scan_apply_rules(prules, i + 1, file_ext_lower,
             scan_rule_pass(acc,
                 FileScanner_apply_replacement(acc.content,
                     prules[i].rule.search_pattern, prules[i].rule.replacement_text,
                     prules[i].rule.is_regex, prules[i].rule.case_sensitive)))

\* The mutant of the duplicate test that never finds a duplicate.
already_seen_never(file_path, seen_files) == FALSE

\* if file_path in seen_files
already_seen(file_path, seen_files) == file_path \in seen_files

\* The for loop from its k-th item on, up to the next yield: duplicates
\* are skipped, the next new file is added to seen_files and its progress
\* event is yielded; or the loop and the generator end.
RECURSIVE advance(_, _)
advance(g, k) ==
    IF k > Len(g.files_to_scan) THEN [g EXCEPT !.gen = "done", !.k = k]
    ELSE IF already_seen(g.files_to_scan[k].file_path, g.seen_files)
    THEN advance(g, k + 1)
    ELSE [g EXCEPT !.gen = "progress", !.k = k,
                   !.seen_files = @ \cup {g.files_to_scan[k].file_path},
                   !.trace = Append(@, Entry("progress", g.files_to_scan[k].file_path,
                                             k, g.total_files, 0, TRUE, <<>>))]

\* The mutant of the match test that reports every file that was read.
matches_found_always(acc) == TRUE

\* if matches_found
matches_found(acc) == acc.matches_found

\* After the file was read and the rules applied: the match event, or on
\* to the next file.  An exception that left the generator is caught by
\* event_generator, which yields an error event and ends the stream.
after_rules_scan(g, file_path, original_content, acc) ==
    IF acc.raised
    THEN [g EXCEPT !.gen = "done",
                   !.trace = Append(@, Entry("error", file_path, 0, 0, 0, FALSE, <<>>))]
    ELSE IF matches_found(acc)
    THEN [g EXCEPT !.gen = "match",
                   !.trace = Append(@, Entry("match", file_path, 0, 0, acc.match_count,
                                             TRUE, <<original_content, acc.content>>))]
    ELSE advance(g, g.k + 1)

\* The generator resumed at the progress yield: the file is read (an open
\* that fails moves on to the next file), the rules are applied.
after_progress(g, d, file_path, fails) ==
    IF fails \/ ~isfile(d, file_path)
    THEN advance([g EXCEPT !.trace = Append(@, Entry("read", file_path, 0, 0, 0,
                                                     FALSE, <<>>)),
                           !.nfaults = @ + 1],
                 g.k + 1)
    ELSE after_rules_scan(
             [g EXCEPT !.trace = Append(@, Entry("read", file_path, 0, 0, 0, TRUE,
                                                 <<file_read_text(d[file_path].bytes)>>))],
             file_path, file_read_text(d[file_path].bytes),
             scan_apply_rules(g.processed_rules, 1, lower(splitext_ext(file_path)),
                 [content |-> file_read_text(d[file_path].bytes),
                  match_count |-> 0, matches_found |-> FALSE, raised |-> FALSE]))

\* The first next(): the rules are processed and the files of all roots
\* collected, then the loop starts.
first_next(g, self, rule_list) ==
    advance([g EXCEPT
                !.processed_rules = [i \in 1..Len(rule_list) |-> process_rule(rule_list[i])],
                !.files_to_scan = collect_files(self, g.root_paths, 1),
                !.total_files = Len(collect_files(self, g.root_paths, 1)),
                !.seen_files = {}],
            1)

\* next() on the generator: it runs up to its next yield or to its end.
gen_next(g, self, d, fails) ==
    IF g.gen = "unstarted" THEN first_next(g, self, query_active_rules(g.rule_ids, 1))
    ELSE IF g.gen = "progress"
    THEN after_progress(g, d, g.files_to_scan[g.k].file_path, fails)
    ELSE advance(g, g.k + 1)

\* The mutant of close() in which the generator runs on to its end.
RECURSIVE gen_close_drain(_, _, _)
gen_close_drain(g, self, d) ==
    IF g.gen \in {"done", "closed"} THEN [g EXCEPT !.gen = "closed"]
    ELSE gen_close_drain(gen_next(g, self, d, FALSE), self, d)

\* close() on the generator, suspended at a yield or not started:
\* GeneratorExit is raised at the yield, which no handler catches.
gen_close(g, self, d) == [g EXCEPT !.gen = "closed"]

\* The files of the tree, with their content by extension; no backups.
ScanDisk ==
    [f \in TreeFiles \cup {BakPath(t) : t \in TreeFiles} |->
        IF f \notin TreeFiles THEN Missing
        ELSE IF splitext_ext(f) = <<".", "c", "s">> THEN File(<<"s", "S">>)
        ELSE IF splitext_ext(f) = <<".", "C", "S">> THEN File(<<"S", "cr", NL, "s">>)
        ELSE IF splitext_ext(f) = <<".", "s", "q", "l">> THEN File(<<"S", LONG_S, "s">>)
        ELSE File(<<"S">>)]

\* The root paths of the active projects of a scan: none, one root,
\* overlapping roots in both orders, and a root that is no directory.
RootLists ==
    {<<>>, <<N_r>>, <<N_r, path_join(N_r, N_src)>>, <<path_join(N_r, N_src), N_r>>,
     <<<<"x">>, path_join(N_r, N_src)>>}

InitScan ==
    /\ call = NoCall /\ ret = NoRet
    /\ disk = ScanDisk
    /\ ExecIdle
    /\ api = ApiIdle /\ walk = WalkIdle /\ scan = ScanIdle
    /\ scanner \in {FileScanner_init(None, None, None),
                    FileScanner_init(<<".", "c", "s">>, None, <<"s", "c">>)}

\* POST /api/scan: without active rules or without active projects it is
\* answered 400; else the stream is set up over the roots that are
\* directories, and nothing runs until the first item is asked for.
dry_run_scan(rule_ids, root_paths) ==
    /\ scan.nscans < MaxScans
    /\ scan.gen \in {"none", "done", "closed"}
    /\ IF query_active_rules(rule_ids, 1) = <<>>
       THEN /\ api' = [api EXCEPT !.http = Http(400, "No active rules found", <<>>)]
            /\ scan' = [scan EXCEPT !.nscans = @ + 1]
       ELSE IF root_paths = <<>>
       THEN /\ api' = [api EXCEPT !.http = Http(400, "No active projects configured", <<>>)]
            /\ scan' = [scan EXCEPT !.nscans = @ + 1]
       ELSE /\ api' = [api EXCEPT !.http = Http(200, "stream", <<>>)]
            /\ scan' = [ScanIdle EXCEPT
                           !.gen = "unstarted", !.consumer = "consuming",
                           !.rule_ids = rule_ids,
                           !.root_paths = SelectSeq(root_paths, isdir),
                           !.nscans = scan.nscans + 1]
    /\ UNCHANGED <<call, ret, execVars, scanner, walk>>

\* The consumer asks for the next item of the stream.
stream_next(fails) ==
    /\ scan.consumer = "consuming"
    /\ scan.gen \in {"unstarted", "progress", "match"}
    /\ fails => (scan.gen = "progress" /\ scan.nfaults < MaxScanFaults)
    /\ scan' = gen_next(scan, scanner, disk, fails)
    /\ UNCHANGED <<call, ret, execVars, api, scanner, walk>>

\* The consumer stops consuming: the stream is closed.
consumer_stop ==
    /\ scan.consumer = "consuming"
    /\ scan.gen \in {"unstarted", "progress", "match"}
    /\ scan' = [gen_close(scan, scanner, disk) EXCEPT
                   !.consumer = "stopped", !.at_stop = scan.trace]
    /\ UNCHANGED <<call, ret, execVars, api, scanner, walk>>

\* The paths of the match events so far, in order.
matched_paths(trace) ==
    LET ms == SelectSeq(trace, LAMBDA e : e.kind = "match")
    IN  [i \in 1..Len(ms) |-> ms[i].path]

\* The client executes what the scan proposed: the scan's rules on the
\* files of its match events.
execute_scanned ==
    /\ scan.gen \in {"done", "closed"}
    /\ execute_refactor(scan.rule_ids, matched_paths(scan.trace))

NextScan ==
    \/ \E rule_ids \in SUBSET RuleIds, root_paths \in RootLists :
          dry_run_scan(rule_ids, root_paths)
    \/ \E fails \in BOOLEAN : stream_next(fails)
    \/ consumer_stop
    \/ execute_scanned

SpecScan == InitScan /\ [][NextScan]_vars

(***************************************************************************)
(* Deep search: generate_variants (deep_search.py).  A keyword is a        *)
(* sequence of characters; a category is a sequence of strings, the kind   *)
(* of step and, for the prefix steps, the prefix and the joint.            *)
(***************************************************************************)
MaxKeywordLen == 3
KeywordChars == {"s", "S", "_", " ", LONG_S}

\* str.upper() and str.isupper() on the characters of the model; the long
\* s is a lowercase letter whose uppercase is S.
UpperChar(c) == IF c \in {"s", LONG_S} THEN "S" ELSE IF c = "c" THEN "C" ELSE c
upper(s) == [i \in 1..Len(s) |-> UpperChar(s[i])]
isupper(c) == c \in {"S", "C"}

COMMON_PREFIXES ==
    <<<<"c", "o", "l", "u", "m", "n">>, <<"c", "o", "l">>, <<"f", "l", "d">>,
      <<"t", "x", "t">>, <<"l", "b", "l">>, <<"b", "t", "n">>,
      <<"t", "b", "l">>, <<"s", "p">>, <<"f", "n">>, <<"v", "w">>,
      <<"d", "d", "l">>, <<"c", "h", "k">>, <<"r", "d", "b">>,
      <<"g", "r", "d">>, <<"p", "n", "l">>, <<"h", "d", "n">>,
      <<"r", "p", "t">>, <<"f", "r", "m">>, <<"g", "e", "t">>,
      <<"s", "e", "t">>, <<"i", "s">>, <<"h", "a", "s">>, <<"p", "r", "m">>,
      <<"p", "a", "r", "a", "m">>, <<"v", "a", "r">>, <<"t", "m", "p">>>>
UNDERSCORE_PREFIXES ==
    <<<<"c", "o", "l", "u", "m", "n">>, <<"c", "o", "l">>, <<"t", "b", "l">>,
      <<"s", "p">>, <<"f", "n">>, <<"v", "w">>>>

_to_camel(word) == IF word = <<>> THEN word ELSE <<LowerChar(word[1])>> \o Tail(word)
_to_pascal(word) == IF word = <<>> THEN word ELSE <<UpperChar(word[1])>> \o Tail(word)
_to_lower(word) == lower(word)
_to_upper(word) == upper(word)

\* _to_snake: "_" before an uppercase letter that is not the first and is
\* not preceded by an uppercase letter; every character lowercased.
RECURSIVE _to_snake_from(_, _)
_to_snake_from(word, i) ==
    IF i > Len(word) THEN <<>>
    ELSE (IF isupper(word[i]) /\ i > 1 /\ ~isupper(word[i - 1])
          THEN <<"_">> ELSE <<>>)
         \o <<LowerChar(word[i])>> \o _to_snake_from(word, i + 1)
_to_snake(word) == _to_snake_from(word, 1)

\* One call of _add as the code makes it: (original, replacement, category).
Candidate(original, replacement, category) ==
    [original |-> original, replacement |-> replacement, category |-> category]

\* The calls of _add, in the order the code makes them.
candidates(search, replace) ==
    <<Candidate(search, replace, <<"Exact">>),
      Candidate(_to_lower(search), _to_lower(replace), <<"Case Variant">>),
      Candidate(_to_upper(search), _to_upper(replace), <<"Case Variant">>),
      Candidate(_to_pascal(search), _to_pascal(replace), <<"Case Variant">>),
      Candidate(_to_camel(search), _to_camel(replace), <<"Case Variant">>),
      Candidate(_to_snake(search), _to_snake(replace), <<"Snake Case">>),
      Candidate(upper(_to_snake(search)), upper(_to_snake(replace)), <<"Snake Case">>),
      Candidate(<<"_">> \o _to_camel(search), <<"_">> \o _to_camel(replace),
                <<"Underscore Prefix">>),
      Candidate(<<"_">> \o _to_lower(search), <<"_">> \o _to_lower(replace),
                <<"Underscore Prefix">>)>>
    \o [i \in 1..Len(COMMON_PREFIXES) |->
           Candidate(COMMON_PREFIXES[i] \o _to_pascal(search),
                     COMMON_PREFIXES[i] \o _to_pascal(replace),
                     <<"Prefix", COMMON_PREFIXES[i], "*">>)]
    \o [j \in 1..(2 * Len(UNDERSCORE_PREFIXES)) |->
           LET prefix == UNDERSCORE_PREFIXES[(j + 1) \div 2]
           IN  IF j % 2 = 1
               THEN Candidate(prefix \o <<"_">> \o _to_lower(search),
                              prefix \o <<"_">> \o _to_lower(replace),
                              <<"Prefix", prefix, "_*">>)
               ELSE Candidate(prefix \o <<"_">> \o _to_upper(search),
                              prefix \o <<"_">> \o _to_upper(replace),
                              <<"Prefix", prefix, "_*">>)]

\* The mutant of _add that keeps every candidate whose two sides differ.
_add_no_seen(acc, c) ==
    IF c.original # c.replacement
    THEN [suggestions |-> Append(acc.suggestions, c),
          seen |-> acc.seen \cup {<<c.original, c.replacement>>}]
    ELSE acc

\* _add: the candidate is appended unless its pair was seen or its two
\* sides are equal.
_add(acc, c) ==
    IF <<c.original, c.replacement>> \notin acc.seen /\ c.original # c.replacement
    THEN [suggestions |-> Append(acc.suggestions, c),
          seen |-> acc.seen \cup {<<c.original, c.replacement>>}]
    ELSE acc

\* The calls of _add one after the other.  (The test on acc.suggestions is
\* always true; it has the accumulator evaluated call by call.)
RECURSIVE add_all(_, _, _)
add_all(cs, i, acc) ==
    IF i > Len(cs) THEN acc
    ELSE IF Len(acc.suggestions) < i THEN add_all(cs, i + 1, _add(acc, cs[i]))
    ELSE acc

\* generate_variants after the two strip() calls.
variants_of(search, replace) ==
    IF search = <<>> \/ replace = <<>> THEN <<>>
    ELSE add_all(candidates(search, replace), 1,
                 [suggestions |-> <<>>, seen |-> {}]).suggestions

generate_variants(search_keyword, replacement_keyword) ==
    variants_of(str_strip(search_keyword), str_strip(replacement_keyword))

Keywords == SeqsUpTo(KeywordChars, MaxKeywordLen)

\* One call of generate_variants; ret.added is history, the calls of _add
\* it made.
InitVariants ==
    /\ call \in [search_keyword : Keywords, replacement_keyword : Keywords]
    /\ ret = NoRet
    /\ disk = [f \in AllPaths |-> Missing]
    /\ ExecIdle
    /\ RestIdle

CallVariants ==
    /\ ~ret.done
    /\ ret' = [done |-> TRUE,
               suggestions |-> generate_variants(call.search_keyword,
                                                 call.replacement_keyword),
               added |-> IF str_strip(call.search_keyword) = <<>>
                            \/ str_strip(call.replacement_keyword) = <<>>
                         THEN <<>>
                         ELSE candidates(str_strip(call.search_keyword),
                                         str_strip(call.replacement_keyword))]
    /\ UNCHANGED <<call, execVars, restVars>>

NextVariants == CallVariants

SpecVariants == InitVariants /\ [][NextVariants]_vars

(***************************************************************************)
(* SQL object detection and ALTER synthesis                                *)
(* (backend/services/sql_alter.py).  SQL text is a sequence of atoms: a    *)
(* DDL keyword is one atom, an identifier is a run of the letters m, M and *)
(* q (letters of no keyword below), and a space, a newline and each        *)
(* punctuation mark is one atom.  The regular expressions of the module    *)
(* are translated atom by atom.                                            *)
(***************************************************************************)
SqlWhitespace == {" ", NL}
SqlLetters == {"m", "M", "q"}
SqlKeywords ==
    {"CREATE", "create", "ALTER", "OR", "TYPE", "VIEW", "PROCEDURE", "PROC",
     "FUNCTION", "TABLE", "AS", "INT", "CONSTRAINT", "INDEX"}

\* str.lower() of one atom, which is also its class under re.IGNORECASE
\* (the atoms are ASCII).
SqlLowerAtom(a) ==
    CASE a = "M" -> "m"
      [] a = "CREATE" -> "create"
      [] a = "ALTER" -> "alter"
      [] a = "OR" -> "or"
      [] a = "TYPE" -> "type"
      [] a = "VIEW" -> "view"
      [] a = "PROCEDURE" -> "procedure"
      [] a = "PROC" -> "proc"
      [] a = "FUNCTION" -> "function"
      [] a = "TABLE" -> "table"
      [] a = "AS" -> "as"
      [] a = "INT" -> "int"
      [] a = "CONSTRAINT" -> "constraint"
      [] a = "INDEX" -> "index"
      [] OTHER -> a
sql_lower(s) == [i \in 1..Len(s) |-> SqlLowerAtom(s[i])]

\* \w and [\[\].\w] on one atom.
IsWord(a) == a \in SqlLetters \cup SqlKeywords
IsNameAtom(a) == IsWord(a) \/ a \in {"[", "]", "."}

\* The end of a greedy run: the first index at or after i whose atom does
\* not satisfy the test, Len(t) + 1 when there is none.
RunEnd(t, i, Test(_)) ==
    CHOOSE j \in i..(Len(t) + 1) :
        /\ \A k \in i..(j - 1) : Test(t[k])
        /\ j = Len(t) + 1 \/ ~Test(t[j])
IsSqlSpace(a) == a \in SqlWhitespace

\* The least and the greatest index of a non-empty set of indexes.
least(S) == CHOOSE i \in S : \A j \in S : i <= j
greatest(S) == CHOOSE i \in S : \A j \in S : j <= i

\* The atom at index i, "" past the ends.
At(t, i) == IF i \in 1..Len(t) THEN t[i] ELSE ""

\* w1\s+w2\s+...\s+wn matched at index i, case-insensitively: the index
\* after the match, 0 when there is no match.  ws[k] is the set of the
\* lowercased atoms that the k-th word of the expression matches.
RECURSIVE words_at(_, _, _)
words_at(t, i, ws) ==
    IF SqlLowerAtom(At(t, i)) \notin ws[1] THEN 0
    ELSE IF Len(ws) = 1 THEN i + 1
    ELSE IF IsSqlSpace(At(t, i + 1))
    THEN words_at(t, RunEnd(t, i + 1, IsSqlSpace), Tail(ws))
    ELSE 0

\* _SQL_TYPE_PATTERNS, in the order of the list; each pattern is
\* <first>\s+<second>\s+.
_SQL_TYPE_PATTERNS ==
    << [first |-> {"create"}, second |-> {"type"}, sql_type |-> "TABLE_TYPE"],
       [first |-> {"create", "alter"}, second |-> {"view"}, sql_type |-> "VIEW"],
       [first |-> {"create", "alter"}, second |-> {"procedure", "proc"},
        sql_type |-> "STORED_PROCEDURE"],
       [first |-> {"create", "alter"}, second |-> {"function"},
        sql_type |-> "FUNCTION"],
       [first |-> {"create"}, second |-> {"table"}, sql_type |-> "TABLE"] >>

\* compiled_re.search(content) for one pattern of the list.
followed_by_space(t, e) == e # 0 /\ IsSqlSpace(At(t, e))
pattern_search(content, p) ==
    \E i \in 1..Len(content) :
        followed_by_space(content, words_at(content, i, <<p.first, p.second>>))

\* str.startswith and os.path.basename.
startswith(s, prefix) ==
    Len(prefix) <= Len(s) /\ SubSeq(s, 1, Len(prefix)) = prefix
after_last(p, cuts) ==
    IF cuts = {} THEN p ELSE SubSeq(p, greatest(cuts) + 1, Len(p))
os_path_basename(p) == after_last(p, {i \in 1..Len(p) : p[i] = "/"})

\* The filename fallback of detect_sql_type.
kind_of_basename(file_path, basename) ==
        IF file_path = <<>> THEN "UNKNOWN"
        ELSE IF startswith(basename, <<"s", "p">>)
                \/ startswith(basename, <<"u", "s", "p">>)
        THEN "STORED_PROCEDURE"
        ELSE IF startswith(basename, <<"v", "w">>)
                \/ startswith(basename, <<"v", "i", "e", "w">>)
        THEN "VIEW"
        ELSE IF startswith(basename, <<"f", "n">>)
                \/ startswith(basename, <<"u", "f", "n">>)
        THEN "FUNCTION"
        ELSE IF startswith(basename, <<"t", "b", "l">>)
                \/ startswith(basename, <<"t", "a", "b", "l", "e">>)
        THEN "TABLE"
        ELSE "UNKNOWN"
filename_heuristic(file_path) ==
    kind_of_basename(file_path, lower(os_path_basename(file_path)))

\* The loop over _COMPILED_PATTERNS from the k-th pattern on, with the
\* filename taken first (a detector that trusts the name over the content).
RECURSIVE detect_from_filename_first(_, _, _)
detect_from_filename_first(content, file_path, k) ==
    IF file_path # <<>> THEN filename_heuristic(file_path)
    ELSE IF k > Len(_SQL_TYPE_PATTERNS) THEN "UNKNOWN"
    ELSE IF pattern_search(content, _SQL_TYPE_PATTERNS[k])
    THEN _SQL_TYPE_PATTERNS[k].sql_type
    ELSE detect_from_filename_first(content, file_path, k + 1)

\* The loop over _COMPILED_PATTERNS from the k-th pattern on, then the
\* filename fallback.
RECURSIVE detect_from(_, _, _)
detect_from(content, file_path, k) ==
    IF k > Len(_SQL_TYPE_PATTERNS) THEN filename_heuristic(file_path)
    ELSE IF pattern_search(content, _SQL_TYPE_PATTERNS[k])
    THEN _SQL_TYPE_PATTERNS[k].sql_type
    ELSE detect_from(content, file_path, k + 1)

detect_sql_type(content, file_path) == detect_from(content, file_path, 1)

\* _extract_object_name: the name captured by ([\[\].\w]+) after the DDL
\* words of the kind, None when the kind has no pattern or nothing matches.
name_run(t, j) ==
    IF IsNameAtom(At(t, j)) THEN SubSeq(t, j, RunEnd(t, j, IsNameAtom) - 1) ELSE <<>>
name_after(t, e) ==
    IF followed_by_space(t, e) THEN name_run(t, RunEnd(t, e, IsSqlSpace)) ELSE <<>>
name_at(t, i, ws) == name_after(t, words_at(t, i, ws))
object_name_words(sql_type) ==
    CASE sql_type = "TABLE" -> <<{"create"}, {"table"}>>
      [] sql_type = "TABLE_TYPE" -> <<{"create"}, {"type"}>>
      [] sql_type = "VIEW" -> <<{"create", "alter"}, {"view"}>>
      [] sql_type = "STORED_PROCEDURE" ->
            <<{"create", "alter"}, {"procedure", "proc"}>>
      [] sql_type = "FUNCTION" -> <<{"create", "alter"}, {"function"}>>
      [] OTHER -> <<>>
first_name(content, ws, hits) ==
    IF hits = {} THEN None ELSE name_at(content, least(hits), ws)
search_name(content, ws) ==
    IF ws = <<>> THEN None
    ELSE first_name(content, ws,
                    {i \in 1..Len(content) : name_at(content, i, ws) # <<>>})
_extract_object_name(content, sql_type) ==
    search_name(content, object_name_words(sql_type))

_strip_brackets(name) == SelectSeq(name, LAMBDA a : a \notin {"[", "]"})
last_part(parts) == parts[Len(parts)]
_get_short_name(full_name) == last_part(str_split(_strip_brackets(full_name), "."))

\* re.sub(re.escape(search), replace, text, flags=re.IGNORECASE) for a
\* search text of at least one atom.
sql_occurs_at(text, search, i) ==
    /\ i + Len(search) - 1 <= Len(text)
    /\ \A k \in 1..Len(search) :
          SqlLowerAtom(text[i + k - 1]) = SqlLowerAtom(search[k])
RECURSIVE sql_sub_from(_, _, _, _)
sql_sub_from(text, search, replace, i) ==
    IF i > Len(text) THEN <<>>
    ELSE IF sql_occurs_at(text, search, i)
    THEN replace \o sql_sub_from(text, search, replace, i + Len(search))
    ELSE <<text[i]>> \o sql_sub_from(text, search, replace, i + 1)
_case_insensitive_replace(content, search, replace) ==
    sql_sub_from(content, search, replace, 1)
_apply_replacement(text, search, replace) ==
    sql_sub_from(text, search, replace, 1)

\* pattern.lower() in text.lower()
_contains_pattern(text, pattern) ==
    \E i \in 1..(Len(text) + 1) :
        /\ i + Len(pattern) - 1 <= Len(text)
        /\ \A k \in 1..Len(pattern) :
              SqlLowerAtom(text[i + k - 1]) = SqlLowerAtom(pattern[k])

\* re.sub(<words>, 'ALTER <keyword>', content, count=1, flags=IGNORECASE):
\* the leftmost match is replaced.  The expression ends with the keyword
\* and no boundary, so PROC also matches the start of PROCEDURE; the atom
\* matched last is kept, being the keyword in capitals followed by the
\* rest of the word.
alter_span(content, i, e) ==
    SubSeq(content, 1, i - 1) \o <<"ALTER", " ", content[e - 1]>>
        \o SubSeq(content, e, Len(content))
alter_at(content, ws, i) == alter_span(content, i, words_at(content, i, ws))
alter_first(content, ws, hits) ==
    IF hits = {} THEN content ELSE alter_at(content, ws, least(hits))
sub_alter_once(content, ws) ==
    alter_first(content, ws, {i \in 1..Len(content) : words_at(content, i, ws) # 0})
keyword_atoms(object_keyword) ==
    IF object_keyword = "PROC" THEN {"proc", "procedure"}
    ELSE {SqlLowerAtom(object_keyword)}

\* _replace_create_with_alter that leaves the text as it is.
_replace_create_never(content, object_keyword) == content

_replace_create_with_alter(content, object_keyword) ==
    sub_alter_once(
        sub_alter_once(content,
                       <<{"create"}, {"or"}, {"alter"}, keyword_atoms(object_keyword)>>),
        <<{"create"}, keyword_atoms(object_keyword)>>)

\* _extract_column_names.  paren_end is match.end() of \(\s*\n, or of \(
\* when the first does not occur, as the index of the last atom matched
\* (0 when there is no parenthesis).
newlines_after(content, i) ==
    {k \in (i + 1)..(RunEnd(content, i + 1, IsSqlSpace) - 1) : content[k] = NL}
paren_end_of(content, opens, withnl) ==
    IF withnl # {} THEN greatest(newlines_after(content, least(withnl)))
    ELSE IF opens # {} THEN least(opens)
    ELSE 0
paren_end(content) ==
    paren_end_of(content, {i \in 1..Len(content) : content[i] = "("},
                 {i \in 1..Len(content) :
                     content[i] = "(" /\ newlines_after(content, i) # {}})

\* The depth loop: the block between the parenthesis and the one that
\* closes it, empty when nothing closes it.
paren_depth(content, start, i) ==
    1 + Cardinality({k \in (start + 1)..i : content[k] = "("})
      - Cardinality({k \in (start + 1)..i : content[k] = ")"})
block_to(content, start, closes) ==
    IF start = 0 \/ closes = {} THEN <<>>
    ELSE SubSeq(content, start + 1, least(closes) - 1)
block_from(content, start) ==
    block_to(content, start,
             {i \in (start + 1)..Len(content) : paren_depth(content, start, i) = 0})
column_block(content) == block_from(content, paren_end(content))

\* col_pattern matched at index p of the block:
\* ^\s*[\[@]?(\w+)[\]]?\s+(?:INT|...|TABLE), one step of the expression
\* after the other; INT and TABLE are the data types the atoms can spell.
SqlDataTypes == {"int", "table"}
NoColumn == [name |-> <<>>, end |-> 0]
col_type(b, j2, j3, j5) ==
    IF SqlLowerAtom(At(b, j5)) \in SqlDataTypes
    THEN [name |-> SubSeq(b, j2, j3 - 1), end |-> j5 + 1]
    ELSE NoColumn
col_space(b, j2, j3, j4) ==
    IF j3 > j2 /\ IsSqlSpace(At(b, j4))
    THEN col_type(b, j2, j3, RunEnd(b, j4, IsSqlSpace))
    ELSE NoColumn
col_close(b, j2, j3) == col_space(b, j2, j3, IF At(b, j3) = "]" THEN j3 + 1 ELSE j3)
col_word(b, j2) == col_close(b, j2, RunEnd(b, j2, IsWord))
col_open(b, j1) == col_word(b, IF At(b, j1) \in {"[", "@"} THEN j1 + 1 ELSE j1)
col_match_at(b, p) ==
    IF p = 1 \/ At(b, p - 1) = NL THEN col_open(b, RunEnd(b, p, IsSqlSpace))
    ELSE NoColumn

\* The words of the exclusion list that the atoms can spell.
ColumnStopWords == {<<"constraint">>, <<"index">>, <<"as">>}
RECURSIVE col_finditer(_, _)
col_emit(b, m) ==
    (IF sql_lower(m.name) \in ColumnStopWords THEN <<>> ELSE <<m.name>>)
        \o col_finditer(b, m.end)
col_first(b, hits) ==
    IF hits = {} THEN <<>> ELSE col_emit(b, col_match_at(b, least(hits)))
col_finditer(b, pos) ==
    col_first(b, {p \in pos..Len(b) : col_match_at(b, p).end # 0})
_extract_column_names(content) == col_finditer(column_block(content), 1)

\* _extract_constraint_names: CONSTRAINT\s+([\[\]\w.]+), then
\* INDEX\s+([\[\]\w.]+); the DEFAULT ... FOR pattern needs words the atoms
\* cannot spell.
RECURSIVE named_finditer(_, _, _)
named_emit(content, kw, i, name) ==
    <<_strip_brackets(name)>>
        \o named_finditer(content, kw,
                          RunEnd(content, i + 1, IsSqlSpace) + Len(name))
named_first(content, kw, hits) ==
    IF hits = {} THEN <<>>
    ELSE named_emit(content, kw, least(hits),
                    name_at(content, least(hits), <<{kw}>>))
named_finditer(content, kw, pos) ==
    named_first(content, kw,
                {i \in pos..Len(content) : name_at(content, i, <<{kw}>>) # <<>>})
_extract_constraint_names(content) ==
    named_finditer(content, "constraint", 1) \o named_finditer(content, "index", 1)

\* The comment lines every script starts with; ARROW is U+2192.
ARROW == "U+2192"
RULE_LINE == <<"-- ==============================================">>
banner(title, clean_name, search, replace, strategy) ==
    << RULE_LINE,
       <<title>> \o clean_name,
       <<"-- Keyword: '">> \o search \o <<"' ", ARROW, " '">> \o replace \o <<"'">>,
       <<strategy>>,
       RULE_LINE,
       <<>> >>

\* The statements of the table script.
rename_table(clean_name, new_table_name) ==
    <<"EXEC sp_rename '">> \o clean_name \o <<"', '">> \o new_table_name \o <<"';">>
rename_column(effective_table, col, new_col) ==
    <<"EXEC sp_rename '">> \o effective_table \o <<".">> \o col \o <<"', '">>
        \o new_col \o <<"', 'COLUMN';">>
rename_object(c_name, new_c_name) ==
    <<"EXEC sp_rename '">> \o c_name \o <<"', '">> \o new_c_name \o <<"', 'OBJECT';">>
GO == <<"GO">>

\* [x for x in names if _contains_pattern(x, search)]
matching(names, search) == SelectSeq(names, LAMBDA n : _contains_pattern(n, search))

\* The name of the table in the column renames.
effective_parts(clean_name, parts, search, replace) ==
    IF Len(parts) > 1
    THEN str_join(".", SubSeq(parts, 1, Len(parts) - 1)) \o <<".">>
            \o _apply_replacement(parts[Len(parts)], search, replace)
    ELSE _apply_replacement(clean_name, search, replace)

\* The column renames that keep the old name of the table.
effective_table_old(clean_name, short_name, search, replace) == clean_name

effective_table_of(clean_name, short_name, search, replace) ==
    IF ~_contains_pattern(short_name, search) THEN clean_name
    ELSE effective_parts(clean_name, str_split(clean_name, "."), search, replace)

\* for col in matching_columns: the rename and GO of each.
RECURSIVE column_lines(_, _, _, _)
column_lines(cols, effective_table, search, replace) ==
    IF cols = <<>> THEN <<>>
    ELSE << rename_column(effective_table, cols[1],
                          _apply_replacement(cols[1], search, replace)), GO >>
            \o column_lines(Tail(cols), effective_table, search, replace)
RECURSIVE constraint_lines(_, _, _)
constraint_lines(cs, search, replace) ==
    IF cs = <<>> THEN <<>>
    ELSE << rename_object(cs[1], _apply_replacement(cs[1], search, replace)), GO >>
            \o constraint_lines(Tail(cs), search, replace)

\* _generate_table_alter: the lines of the script and the warnings added.
table_rename_section(clean_name, short_name, search, replace) ==
    IF _contains_pattern(short_name, search)
    THEN << <<"-- Rename the table itself">>,
            rename_table(clean_name, _apply_replacement(short_name, search, replace)),
            GO, <<>> >>
    ELSE <<>>
column_section(clean_name, short_name, matching_columns, search, replace) ==
    IF matching_columns # <<>>
    THEN << <<"-- Rename columns containing '">> \o search \o <<"'">> >>
            \o column_lines(matching_columns,
                            effective_table_of(clean_name, short_name, search, replace),
                            search, replace)
            \o << <<>> >>
    ELSE <<>>
constraint_section(matching_constraints, search, replace) ==
    IF matching_constraints # <<>>
    THEN << <<"-- Rename constraints/indexes containing '">> \o search \o <<"'">> >>
            \o constraint_lines(matching_constraints, search, replace)
            \o << <<>> >>
    ELSE <<>>
table_script(clean_name, short_name, matching_columns, matching_constraints, search, replace) ==
    [lines |->
        banner("-- ALTER Script for TABLE: ", clean_name, search, replace,
               "-- Strategy: sp_rename (preserves data)")
        \o table_rename_section(clean_name, short_name, search, replace)
        \o column_section(clean_name, short_name, matching_columns, search, replace)
        \o constraint_section(matching_constraints, search, replace)
        \o (IF /\ matching_columns = <<>>
               /\ ~_contains_pattern(short_name, search)
               /\ matching_constraints = <<>>
            THEN << <<"-- No table/column/constraint names found matching '">>
                        \o search \o <<"'.">>,
                    <<"-- The keyword may appear in comments or default values only.">>,
                    <<"-- Review the file manually if needed.">> >>
            ELSE <<>>),
     warnings |->
        (IF _contains_pattern(short_name, search) THEN <<"Table rename">> ELSE <<>>)
        \o (IF matching_constraints # <<>> THEN <<"Found constraint(s)">> ELSE <<>>)]
_generate_table_alter(content, object_name, search, replace) ==
    table_script(_strip_brackets(object_name), _get_short_name(object_name),
                 matching(_extract_column_names(content), search),
                 matching(_extract_constraint_names(content), search),
                 search, replace)

\* _generate_table_type_alter.
table_type_script(content, clean_name, short_name, matching_columns, search, replace) ==
    [lines |->
        banner("-- ALTER Script for TABLE TYPE: ", clean_name, search, replace,
               "-- Strategy: sp_rename (preserves type)")
        \o (IF _contains_pattern(short_name, search)
            THEN << <<"-- Rename the table type">>,
                    <<"EXEC sp_rename '">> \o clean_name \o <<"', '">>
                        \o _apply_replacement(short_name, search, replace)
                        \o <<"', 'USERDATATYPE';">>,
                    GO, <<>> >>
            ELSE <<>>)
        \o (IF matching_columns # <<>>
            THEN << <<"-- Table Types do NOT support column rename via sp_rename.">>,
                    <<"-- You must DROP and re-CREATE the type to rename columns.">>,
                    <<"-- Below is the re-created type with replacements applied:">>,
                    <<>>,
                    <<"-- First, check dependencies:">>,
                    <<"-- SELECT * FROM sys.dm_sql_referencing_entities('">>
                        \o clean_name \o <<"', 'TYPE');">>,
                    <<>>,
                    <<"-- DROP TYPE ">> \o clean_name \o <<";">>,
                    <<"-- GO">>,
                    <<>>,
                    str_strip(_case_insensitive_replace(content, search, replace)),
                    GO >>
            ELSE <<>>)
        \o (IF matching_columns = <<>> /\ ~_contains_pattern(short_name, search)
            THEN << <<"-- No type/column names found matching '">>
                        \o search \o <<"'.">>,
                    <<"-- Review the file manually if needed.">> >>
            ELSE <<>>),
     warnings |->
        (IF _contains_pattern(short_name, search) THEN <<"Table type rename">>
         ELSE <<>>)
        \o (IF matching_columns # <<>>
            THEN <<"Table type column rename requires DROP/CREATE">> ELSE <<>>)]
_generate_table_type_alter(content, object_name, search, replace) ==
    table_type_script(content, _strip_brackets(object_name),
                      _get_short_name(object_name),
                      matching(_extract_column_names(content), search),
                      search, replace)

\* _generate_view_alter.
_generate_view_alter(content, object_name, search, replace) ==
    [lines |->
        banner("-- ALTER Script for VIEW: ", _strip_brackets(object_name),
               search, replace, "-- Strategy: ALTER VIEW (preserves permissions)")
        \o << str_strip(_case_insensitive_replace(
                            _replace_create_with_alter(content, "VIEW"),
                            search, replace)),
              GO >>,
     warnings |-> <<"Review the ALTER VIEW output">>]

\* _generate_sp_alter: PROCEDURE first, then the PROC shorthand.
_generate_sp_alter(content, object_name, search, replace) ==
    [lines |->
        banner("-- ALTER Script for STORED PROCEDURE: ", _strip_brackets(object_name),
               search, replace, "-- Strategy: ALTER PROCEDURE (preserves permissions)")
        \o << str_strip(_case_insensitive_replace(
                            _replace_create_with_alter(
                                _replace_create_with_alter(content, "PROCEDURE"),
                                "PROC"),
                            search, replace)),
              GO >>,
     warnings |-> <<"Review parameter names">>]

\* _generate_function_alter.
_generate_function_alter(content, object_name, search, replace) ==
    [lines |->
        banner("-- ALTER Script for FUNCTION: ", _strip_brackets(object_name),
               search, replace, "-- Strategy: ALTER FUNCTION (preserves permissions)")
        \o << str_strip(_case_insensitive_replace(
                            _replace_create_with_alter(content, "FUNCTION"),
                            search, replace)),
              GO >>,
     warnings |-> <<"Review return types">>]

\* The name used when none is found in the DDL: '<object_name>', spelled
\* so that its letter m is an atom.
PLACEHOLDER_NAME == <<"<object_na", "m", "e>">>

\* The dispatch of generate_alter_sql on the kind.
script_for(content, kind, object_name, search_pattern, replacement_text) ==
    CASE kind = "TABLE" ->
            _generate_table_alter(content, object_name, search_pattern,
                                  replacement_text)
      [] kind = "TABLE_TYPE" ->
            _generate_table_type_alter(content, object_name, search_pattern,
                                       replacement_text)
      [] kind = "VIEW" ->
            _generate_view_alter(content, object_name, search_pattern,
                                 replacement_text)
      [] kind = "STORED_PROCEDURE" ->
            _generate_sp_alter(content, object_name, search_pattern,
                               replacement_text)
      [] kind = "FUNCTION" ->
            _generate_function_alter(content, object_name, search_pattern,
                                     replacement_text)
      [] OTHER ->
            [lines |-> << <<"-- Could not determine SQL object type for this file.">>,
                          <<"-- Please review manually.">>, <<>> >>,
             warnings |-> <<"Unknown SQL object type">>]
alter_result(kind, found, script) ==
    [sql_type |-> kind,
     alter_sql |-> str_strip(str_join(NL, script.lines)),
     warnings |-> (IF found = None THEN <<"Could not auto-detect object name">>
                   ELSE <<>>) \o script.warnings]
alter_named(content, kind, found, search_pattern, replacement_text) ==
    alter_result(kind, found,
                 script_for(content, kind,
                            IF found = None THEN PLACEHOLDER_NAME ELSE found,
                            search_pattern, replacement_text))
alter_of_kind(content, kind, search_pattern, replacement_text) ==
    alter_named(content, kind, _extract_object_name(content, kind),
                search_pattern, replacement_text)

\* generate_alter_sql (the caller passes 'UNKNOWN' to have the kind
\* detected).
generate_alter_sql(content, sql_type, search_pattern, replacement_text, file_path) ==
    alter_of_kind(content,
                  IF sql_type = "UNKNOWN" THEN detect_sql_type(content, file_path)
                  ELSE sql_type,
                  search_pattern, replacement_text)

\* File names of the calls.
SqlFileNames ==
    { <<>>, <<"s", "p">>, <<"u", "s", "p">>, <<"v", "w">>, <<"v", "i", "e", "w">>,
      <<"f", "n">>, <<"u", "f", "n">>, <<"t", "b", "l">>,
      <<"t", "a", "b", "l", "e">>, <<"x">>, <<"d", "/", "s", "p">>,
      <<"s", "p", "/", "x">>, <<"S", "p">> }

\* Contents for detection: at most two of these pieces one after the other.
DdlPieces ==
    { <<"CREATE", " ", "TYPE", " ">>, <<"CREATE", " ", "VIEW", " ">>,
      <<"ALTER", NL, "VIEW", " ">>, <<"create", " ", " ", "PROCEDURE", NL>>,
      <<"ALTER", " ", "PROC", " ">>, <<"CREATE", " ", "FUNCTION", " ">>,
      <<"CREATE", " ", "TABLE", " ">>, <<"ALTER", " ", "TABLE", " ">>,
      <<"ALTER", " ", "TYPE", " ">>, <<"CREATE", "TABLE", " ">>,
      <<"CREATE", " ", "TABLE">>, <<"m">>, <<" ">>,
      <<"CREATE", " ", "PROC", "m", " ">> }
DetectContents ==
    {<<>>} \cup DdlPieces \cup {a \o b : a \in DdlPieces, b \in DdlPieces}

\* Procedure files: a header, a name and the rest of the file.
ProcHeaders ==
    { <<"CREATE", " ", "PROCEDURE", " ">>, <<"create", " ", " ", "PROC", " ">>,
      <<"CREATE", " ", "OR", " ", "ALTER", " ", "PROCEDURE", " ">>,
      <<NL, "CREATE", " ", "PROCEDURE", " ">> }
SqlNames == { <<"m">>, <<"q", ".", "m">>, <<"[", "q", "]", ".", "[", "m", "M", "]">>,
              <<"q">> }
ProcRests ==
    { <<>>, <<" ", "AS", " ", "m">>, <<NL, "CREATE", " ", "VIEW", " ", "q">>,
      <<NL, "CREATE", " ", "TYPE", " ", "q">>, <<NL, "ALTER", " ", "m">>,
      <<NL, "CREATE", " ", "PROC", " ", "q">>,
      <<NL, "CREATE", " ", "OR", " ", "ALTER", " ", "PROCEDURE", " ", "q", NL>> }
ProcContents == {h \o n \o r : h \in ProcHeaders, n \in SqlNames, r \in ProcRests}
ProcSearches == { <<"m">>, <<"M", "m">>, <<"q">>, <<"ALTER">>, <<"PROCEDURE">>,
                  <<"m", " ">>, <<"AS">> }
SqlReplacements == { <<"q">>, <<"M", "q">>, <<>> }

\* Table files: the name, the column lines and the constraint lines.
ColumnLists ==
    { <<>>,
      <<" ", "m", " ", "INT", ",", NL>>,
      <<" ", "q", " ", "INT", ",", NL, " ", "m", " ", "INT", ",", NL>>,
      <<"[", "m", "]", " ", "INT", ",", NL, "q", "M", " ", "INT", "(", "q", ")", NL>>,
      <<"@", "M", " ", "TABLE", NL, "m", ",", NL, "AS", " ", "INT", NL>> }
ConstraintLists ==
    { <<>>,
      <<"CONSTRAINT", " ", "q", "m", NL>>,
      <<"INDEX", " ", "m", NL, "CONSTRAINT", " ", "[", "M", "]", " ", "q", NL>> }
TableContents ==
    {<<"CREATE", " ", "TABLE", " ">> \o n \o <<" ", "(", NL>> \o c \o k \o <<")">> :
        n \in SqlNames, c \in ColumnLists, k \in ConstraintLists}
    \cup {<<"CREATE", " ", "TABLE", " ">> \o n \o <<"(">> \o c : n \in SqlNames,
                                                             c \in ColumnLists}
    \cup {<<"(", NL>> \o c \o <<")", NL>> \o k : c \in ColumnLists,
                                               k \in ConstraintLists}
TableSearches == { <<"m">>, <<"M", "m">>, <<"q">>, <<"q", "m">> }

SqlCall(content, file_path, search_pattern, replacement_text) ==
    [content |-> content, file_path |-> file_path,
     search_pattern |-> search_pattern, replacement_text |-> replacement_text]
SqlCalls ==
    {SqlCall(c, f, <<"m">>, <<"q">>) : c \in DetectContents, f \in SqlFileNames}
    \cup {SqlCall(c, f, s, r) : c \in ProcContents, f \in {<<>>, <<"v", "w">>},
                               s \in ProcSearches, r \in SqlReplacements}
    \cup {SqlCall(c, f, s, r) : c \in TableContents,
                               f \in {<<>>, <<"t", "b", "l">>},
                               s \in TableSearches, r \in SqlReplacements}

\* One call of detect_sql_type and of generate_alter_sql with the kind left
\* to detection; ret.columns and ret.constraints are history, the names
\* the two extractions found.
InitSql ==
    /\ call \in SqlCalls
    /\ ret = NoRet
    /\ disk = [f \in AllPaths |-> Missing]
    /\ ExecIdle
    /\ RestIdle

CallSql ==
    /\ ~ret.done
    /\ ret' = [done |-> TRUE,
               sql_type |-> detect_sql_type(call.content, call.file_path),
               result |-> generate_alter_sql(call.content, "UNKNOWN",
                                             call.search_pattern,
                                             call.replacement_text, call.file_path),
               columns |-> _extract_column_names(call.content),
               constraints |-> _extract_constraint_names(call.content)]
    /\ UNCHANGED <<call, execVars, restVars>>

NextSql == CallSql

SpecSql == InitSql /\ [][NextSql]_vars

(***************************************************************************)
(* The preview and the execution on one file: the rule loop of             *)
(* scan_files_with_rules (scanner.py) and execute_replacement              *)
(* (refactor.py) on the same content and the same rules.                   *)
(***************************************************************************)
MaxPreviewLen == 3
MaxPreviewRules == 2

\* Rules whose target_extensions hold no extension at all, and a regex
\* rule for two kinds of file.
rule_blank_exts == Rule(8, <<"S">>, <<"s", "s">>, FALSE, TRUE, <<" ">>)
rule_comma_exts == Rule(9, <<"s">>, <<>>, FALSE, FALSE, <<",">>)
rule_regex == Rule(10, <<"s", ".">>, <<"S">>, TRUE, FALSE,
                   <<".", "s", "q", "l", ",", "C", "S">>)
PreviewRules ==
    {rule_newline, rule_lower, rule_cs_only, rule_nocase, rule_blank,
     rule_bad_regex, rule_blank_exts, rule_comma_exts, rule_regex}
PreviewRuleLists == SeqsUpTo(PreviewRules, MaxPreviewRules)

\* if normed_exts and file_ext_lower not in normed_exts: continue
scan_rule_skipped(prule, file_ext_lower) ==
    prule._normalized_exts # {} /\ file_ext_lower \notin prule._normalized_exts

\* The rule loop of the scan on the text of a file.
scan_file(file_path, original_content, rule_list) ==
    scan_apply_rules([i \in 1..Len(rule_list) |-> process_rule(rule_list[i])], 1,
                     lower(splitext_ext(file_path)),
                     [content |-> original_content, match_count |-> 0,
                      matches_found |-> FALSE, raised |-> FALSE])

\* The file of the call is the only file on the disk.
PreviewDisk(file_path, bytes) ==
    [f \in AllPaths |-> IF f = file_path THEN File(bytes) ELSE Missing]

InitPreview ==
    /\ call \in [file_path : Paths, bytes : SeqsUpTo(ContentChars, MaxPreviewLen),
                 rules : PreviewRuleLists]
    /\ ret = NoRet
    /\ disk = PreviewDisk(call.file_path, call.bytes)
    /\ ExecIdle
    /\ RestIdle

\* The file is scanned, then execute_replacement is called on it with the
\* same rules; ret.scan_skipped and ret.exec_skipped are history, the
\* positions of the rules each loop skipped for the extension of the file.
CallPreview ==
    /\ ~ret.done
    /\ \E o \in execute_replacement(disk, call.file_path, call.rules, {}) :
          /\ disk' = o.disk
          /\ ret' = [done |-> TRUE,
                     scan |-> scan_file(call.file_path,
                                        file_read_text(call.bytes), call.rules),
                     returns |-> o.returns,
                     result |-> o.result,
                     scan_skipped |->
                        {i \in 1..Len(call.rules) :
                            scan_rule_skipped(process_rule(call.rules[i]),
                                              lower(splitext_ext(call.file_path)))},
                     exec_skipped |->
                        {i \in 1..Len(call.rules) :
                            rule_skipped(call.rules[i],
                                         splitext_ext(call.file_path))}]
    /\ UNCHANGED <<call, pc, file_paths, rules, idx, summary, stuck, oplog, nfaults,
                   nbatches, restVars>>

NextPreview == CallPreview

SpecPreview == InitPreview /\ [][NextPreview]_vars

(***************************************************************************)
(* POST /api/rollback/{execution_id} (main.py).  The ExecutionHistory row  *)
(* with id n is api.history[n].  ret is the last rollback: its response,   *)
(* and as history the positions of the ModifiedFile rows it counted as     *)
(* restored and the disk when it returned.                                 *)
(***************************************************************************)
\* The loop of rollback_execution from the k-th ModifiedFile row on: the
\* [disk, resp] pairs it can end with.
RECURSIVE rollback_from(_, _, _, _)
rollback_from(d, modified_files, k, resp) ==
    IF k > Len(modified_files) THEN {[disk |-> d, resp |-> resp]}
    ELSE IF modified_files[k].backup_path # None
            /\ d[modified_files[k].backup_path].exists
    THEN UNION {
            rollback_from(o.disk, modified_files, k + 1,
                IF o.ret
                THEN [resp EXCEPT !.files_restored = @ + 1,
                                  !.restored = @ \cup {k}]
                ELSE [resp EXCEPT !.files_failed = @ + 1,
                                  !.errors = Append(@, <<"Failed to restore",
                                                         modified_files[k].file_path>>)])
            : o \in restore_from_backup(d, modified_files[k].file_path, FALSE)}
    ELSE rollback_from(d, modified_files, k + 1,
            [resp EXCEPT !.files_failed = @ + 1,
                         !.errors = Append(@, <<"Backup not found for",
                                                modified_files[k].file_path>>)])

\* The response of a rollback that has looked at no file yet.
RollbackResponse(execution_id) ==
    [done |-> TRUE, status |-> 200, execution_id |-> execution_id,
     files_restored |-> 0, files_failed |-> 0, errors |-> <<>>, restored |-> {}]

rollback_execution(execution_id) ==
    /\ ~ret.done
    /\ IF execution_id \notin 1..Len(api.history)
       THEN /\ ret' = [done |-> TRUE, status |-> 404, execution_id |-> execution_id,
                       after |-> disk]
            /\ disk' = disk
       ELSE \E o \in rollback_from(disk, api.history[execution_id].modified_files, 1,
                                   RollbackResponse(execution_id)) :
               /\ disk' = o.disk
               /\ ret' = [after |-> o.disk] @@ o.resp
    /\ UNCHANGED <<call, pc, file_paths, rules, idx, summary, stuck, oplog, nfaults,
                   nbatches, restVars>>

InitRollback == InitApi

NextRollback ==
    \/ \E rule_ids \in SUBSET RuleIds, paths \in SeqsUpTo(Paths, MaxRequestFiles) :
          execute_refactor(rule_ids, paths)
    \/ \E execution_id \in 1..(MaxRequests + 1) : rollback_execution(execution_id)

SpecRollback == InitRollback /\ [][NextRollback]_vars

(***************************************************************************)
(* POST /api/git/auto-merge (main.py).  call holds what the handler reads  *)
(* from the tables: the active projects and the active rules.  ret is the  *)
(* handler: its position (pc: "pull" is step 1 of project k, "apply" step  *)
(* 2, "returned" and "raised" the two ends), its locals and, as history,   *)
(* the steps it has taken ("skip" is a step 2 that had nothing to do).     *)
(* git is not modelled: whether a root is inside a repository is an input  *)
(* and whether a pull succeeds is chosen.                                  *)
(***************************************************************************)
MaxProjects == 2

\* A Python value handed over as file_paths: a list or a generator.
PyList(items) == [kind |-> "list", items |-> items]
PyGenerator(items) == [kind |-> "generator", items |-> items]

\* FileScanner.scan_directory is a generator function: the call returns a
\* generator that will yield the files.
scan_directory_generator(self, root_path) ==
    PyGenerator(scan_directory(self, root_path).files)

\* execute_batch on a Python value: len(file_paths) comes first and raises
\* TypeError on a generator, before any file is looked at.
execute_batch_on(d, paths, rule_list) ==
    IF paths.kind = "generator"
    THEN {[disk |-> d, raised |-> TRUE, exc |-> "TypeError",
           summary |-> new_summary(<<>>)]}
    ELSE {[disk |-> o.disk, raised |-> FALSE, exc |-> "", summary |-> o.summary] :
             o \in execute_batch(d, paths.items, rule_list)}

Project(name, root_path, in_repo) ==
    [name |-> name, root_path |-> root_path, in_repo |-> in_repo]
MergeProjects ==
    {Project(n, r, g) : n \in {"A"}, r \in {path_join(N_r, N_src), <<"x">>},
                        g \in BOOLEAN}
MergeRuleLists == {<<>>, <<rule_lower>>, <<rule_newline, rule_lower>>}

AutoMergeResult(project_name, pull_success, pull_message) ==
    [project_name |-> project_name, pull_success |-> pull_success,
     pull_message |-> pull_message, rules_applied |-> 0, replacements_made |-> 0]

InitMerge ==
    /\ call \in [projects : SeqsUpTo(MergeProjects, MaxProjects),
                 active_rules : MergeRuleLists]
    /\ ret = [done |-> FALSE, pc |-> "pull", k |-> 1, results |-> <<>>,
              total_replacements |-> 0, successful_pulls |-> 0,
              merge_result |-> AutoMergeResult("", FALSE, ""), steps |-> <<>>,
              status |-> 0]
    /\ disk = ScanDisk
    /\ ExecIdle
    /\ api = ApiIdle /\ walk = WalkIdle /\ scan = ScanIdle
    /\ scanner = FileScanner_init(None, None, None)

\* Step 1 for project k: the pull, when the root is inside a repository.
auto_merge_pull(pull_success) ==
    /\ ret.pc = "pull" /\ ret.k <= Len(call.projects)
    /\ call.projects[ret.k].in_repo \/ pull_success
    /\ ret' = [ret EXCEPT
          !.pc = "apply",
          !.merge_result =
              AutoMergeResult(call.projects[ret.k].name, pull_success,
                  IF call.projects[ret.k].in_repo THEN "git pull output"
                  ELSE "Not a Git repository - skipped pull"),
          !.successful_pulls =
              IF call.projects[ret.k].in_repo /\ pull_success THEN @ + 1 ELSE @,
          !.steps = Append(@, <<"pull", ret.k>>)]
    /\ UNCHANGED <<call, execVars, restVars>>

\* Step 2 of the handler once execute_batch has ended with outcome o.
auto_merge_applied(o) ==
    /\ disk' = o.disk
    /\ ret' = IF o.raised
              THEN [ret EXCEPT !.done = TRUE, !.pc = "raised", !.status = 500,
                               !.steps = Append(@, <<"apply", ret.k>>)]
              ELSE [ret EXCEPT
                       !.pc = "pull", !.k = @ + 1,
                       !.total_replacements = @ + o.summary.total_replacements,
                       !.results = Append(@,
                           [ret.merge_result EXCEPT
                               !.rules_applied = Len(call.active_rules),
                               !.replacements_made = o.summary.total_replacements]),
                       !.steps = Append(@, <<"apply", ret.k>>)]

\* Step 2 for project k: the active rules on the files of the root, when
\* there are rules and the root is a directory; then the result is appended.
auto_merge_apply ==
    /\ ret.pc = "apply"
    /\ IF call.active_rules # <<>> /\ isdir(call.projects[ret.k].root_path)
       THEN \E o \in execute_batch_on(disk,
                        scan_directory_generator(scanner,
                                                 call.projects[ret.k].root_path),
                        call.active_rules) :
               auto_merge_applied(o)
       ELSE /\ ret' = [ret EXCEPT !.pc = "pull", !.k = @ + 1,
                                  !.results = Append(@, ret.merge_result),
                                  !.steps = Append(@, <<"skip", ret.k>>)]
            /\ disk' = disk
    /\ UNCHANGED <<call, pc, file_paths, rules, idx, summary, stuck, oplog, nfaults,
                   nbatches, restVars>>

\* The loop is over: the AutoMergeResponse.
auto_merge_return ==
    /\ ret.pc = "pull" /\ ret.k > Len(call.projects)
    /\ ret' = [ret EXCEPT !.done = TRUE, !.pc = "returned", !.status = 200]
    /\ UNCHANGED <<call, execVars, restVars>>

NextMerge ==
    \/ \E pull_success \in BOOLEAN : auto_merge_pull(pull_success)
    \/ auto_merge_apply
    \/ auto_merge_return

\* The handler runs to its end: no step of it waits for anything.
SpecMerge == InitMerge /\ [][NextMerge]_vars /\ WF_vars(NextMerge)

(***************************************************************************)
(* Properties of the matching functions, checked under SpecMatch.          *)
(***************************************************************************)
\* The reference scan of the specification: pattern occurs at pos when
\* every character agrees (after lowercasing both, when case-insensitive);
\* the scan takes the leftmost occurrence and resumes after its end.
RefOccursAt(content, pattern, pos, case_sensitive) ==
    /\ pos + Len(pattern) <= Len(content)
    /\ \A i \in 1..Len(pattern) :
          IF case_sensitive THEN content[pos + i] = pattern[i]
          ELSE LowerChar(content[pos + i]) = LowerChar(pattern[i])
RECURSIVE RefGreedyCount(_, _, _, _)
RefGreedyCount(content, pattern, from, case_sensitive) ==
    LET occ == {q \in from..Len(content) : RefOccursAt(content, pattern, q, case_sensitive)}
    IN  IF occ = {} THEN 0
        ELSE LET first == CHOOSE q \in occ : \A o \in occ : q <= o
             IN  1 + RefGreedyCount(content, pattern, first + Len(pattern), case_sensitive)

\* C1: for a plain-text pattern in either case mode, the spans find_matches
\* returns are non-empty, in increasing order and pairwise disjoint, each
\* is an occurrence of the pattern, and there are as many as the reference
\* greedy left-to-right scan counts.
C1_NonOverlappingGreedy ==
    (ret.done /\ ~call.is_regex /\ ret.found.term) =>
        LET m == ret.found.matches
        IN  /\ \A k \in 1..Len(m) :
                  /\ m[k][1] < m[k][2]
                  /\ RefOccursAt(call.content, call.search_pattern, m[k][1],
                                 call.case_sensitive)
            /\ \A k \in 1..(Len(m) - 1) : m[k][2] <= m[k + 1][1]
            /\ Len(m) = RefGreedyCount(call.content, call.search_pattern, 0,
                                       call.case_sensitive)

\* C1 witness: "ss" in "ssss" has been searched and gave two matches.
C1_Witness ==
    /\ ret.done /\ ~call.is_regex
    /\ call.content = <<"s", "s", "s", "s">>
    /\ call.search_pattern = <<"s", "s">>
    /\ ret.found.term /\ Len(ret.found.matches) = 2

\* C2 (as claimed): whenever find_matches and apply_replacement both
\* return, the count of either apply_replacement equals the number of
\* matches of find_matches on the same arguments.
C2_CountEqualsMatches ==
    (ret.done /\ ret.found.term) =>
        /\ ~ret.executor.raised => ret.executor.count = Len(ret.found.matches)
        /\ ~ret.scanner.raised => ret.scanner.count = Len(ret.found.matches)

\* A pattern that is empty or holds only whitespace.
IsBlank(p) == \A i \in 1..Len(p) : p[i] = NL

\* C3 (as claimed): for an empty or whitespace-only pattern find_matches
\* returns no match and apply_replacement gives the content back with
\* count 0.
C3_BlankPatternNeverMatches ==
    (ret.done /\ IsBlank(call.search_pattern)) =>
        /\ ret.found.term /\ ret.found.matches = <<>>
        /\ ~ret.executor.raised
        /\ ret.executor.count = 0 /\ ret.executor.content = call.content
        /\ ret.scanner.count = 0 /\ ret.scanner.content = call.content

IsSubstring(sub, s) == str_find(s, sub, 0) # -1
CharsOf(s) == {s[i] : i \in 1..Len(s)}

\* C8 (as claimed): for a case-sensitive plain-text rule whose replacement
\* does not contain the search text, applying the rule to its own output
\* replaces nothing.
C8_IdempotentIfNotContained ==
    (/\ ret.done /\ ~call.is_regex /\ call.case_sensitive
     /\ ~IsSubstring(call.search_pattern, call.replacement_text)) =>
        ret.again.count = 0

\* C8 (amended): for a case-sensitive plain-text rule whose search text and
\* replacement text are both non-empty and have no character in common,
\* applying the rule to its own output replaces nothing.
C8_IdempotentIfDisjoint ==
    (/\ ret.done /\ ~call.is_regex /\ call.case_sensitive
     /\ call.search_pattern # <<>> /\ call.replacement_text # <<>>
     /\ CharsOf(call.search_pattern) \cap CharsOf(call.replacement_text) = {}) =>
        ret.again.count = 0

\* C8 witness: such a rule replaced two occurrences, and none on re-run.
C8_Witness ==
    /\ ret.done /\ ~call.is_regex /\ call.case_sensitive
    /\ call.search_pattern # <<>> /\ call.replacement_text # <<>>
    /\ CharsOf(call.search_pattern) \cap CharsOf(call.replacement_text) = {}
    /\ ret.executor.count = 2 /\ ret.again.count = 0

(***************************************************************************)
(* Properties of the executor, checked under Spec.  A record of oplog      *)
(* never changes once appended and is the last one in the state its        *)
(* operation leads to, so a property of one operation is stated of the     *)
(* last record.                                                            *)
(***************************************************************************)
Execs == {k \in 1..Len(oplog) : oplog[k].op = "exec"}
Restores == {k \in 1..Len(oplog) : oplog[k].op = "restore"}
LastIsExec == Len(oplog) > 0 /\ oplog[Len(oplog)].op = "exec"
LastIsRestore == Len(oplog) > 0 /\ oplog[Len(oplog)].op = "restore"
LastOp == oplog[Len(oplog)]

\* The call read its file.
ReadOK(e) == e.pre.exists /\ "read" \notin e.faults

\* The call got as far as replacing something: it went on to back up and write.
Touches(e) == e.locals.status = "ok" /\ e.locals.total > 0

\* The operation on the same path just before operation n, or 0.
PrevOnPath(n) ==
    LET earlier == {j \in 1..(n - 1) : oplog[j].path = oplog[n].path}
    IN  IF earlier = {} THEN 0 ELSE CHOOSE j \in earlier : \A i \in earlier : i <= j

\* C4: an execution that replaces something and creates its backup leaves
\* path.bak holding exactly the bytes the file had before, and a restore
\* that follows (its copy not failing) returns true and makes the file
\* those bytes again.
C4_BackupHoldsPreImage ==
    /\ LastIsExec =>
          LET e == LastOp
          IN  (Touches(e) /\ e.result.backup_path # None) =>
                  /\ e.result.backup_path = BakPath(e.path)
                  /\ e.postbak = File(e.pre.bytes)
    /\ LastIsRestore =>
          LET r == LastOp
              k == PrevOnPath(Len(oplog))
          IN  (/\ k # 0 /\ oplog[k].op = "exec" /\ Touches(oplog[k])
               /\ oplog[k].result.backup_path # None /\ ~r.fails) =>
                  /\ r.ret = TRUE
                  /\ r.post = File(oplog[k].pre.bytes)
                  /\ disk[r.path] = File(oplog[k].pre.bytes)

\* C4 witness: the CRLF file was rewritten with a backup, then restored to
\* its former bytes.
C4_Witness ==
    /\ LastIsRestore
    /\ LET r == LastOp
           k == PrevOnPath(Len(oplog))
       IN  /\ k # 0 /\ oplog[k].op = "exec" /\ Touches(oplog[k])
           /\ oplog[k].result.backup_path # None
           /\ oplog[k].result.replacements_count > 0
           /\ r.path = P2 /\ oplog[k].post # oplog[k].pre
           /\ r.ret = TRUE /\ disk[P2] = oplog[k].pre

\* C5: when the rules replace nothing in total, execute_replacement returns
\* success with count 0 and no backup path, and neither the file nor
\* path.bak is written.
C5_NoOpWritesNothing ==
    LastIsExec =>
        LET e == LastOp
        IN  (e.locals.status = "ok" /\ e.locals.total = 0) =>
                /\ e.returns
                /\ e.result.success = TRUE
                /\ e.result.replacements_count = 0
                /\ e.result.backup_path = None
                /\ e.post = e.pre
                /\ e.postbak = e.prebak

\* C5 witness: a no-op execution on a file that already had a backup.
C5_Witness ==
    /\ LastIsExec
    /\ LET e == LastOp
       IN  /\ e.locals.status = "ok" /\ e.locals.total = 0
           /\ e.returns /\ e.result.success
           /\ e.prebak.exists /\ e.postbak = e.prebak

\* The execute_replacement calls of the batch in progress (or last returned).
BatchExecs == {k \in Execs : oplog[k].batch = nbatches}
EntryAt(i) == oplog[CHOOSE k \in BatchExecs : oplog[k].index = i]

\* The call failed on I/O: the read failed, or the write did.
IOFailed(e) ==
    \/ ~ReadOK(e)
    \/ Touches(e) /\ "write" \in e.faults

\* The error entries a batch owes for its first n files: one per file whose
\* result carries a message, in order.
RECURSIVE ErrorsOwed(_)
ErrorsOwed(n) ==
    IF n = 0 THEN <<>>
    ELSE LET r == summary.files[n]
         IN  IF r.success \/ r.error \in {None, <<>>} THEN ErrorsOwed(n - 1)
             ELSE Append(ErrorsOwed(n - 1), <<file_paths[n], r.error>>)

\* C6: a file whose read or write fails does not stop the batch: its call
\* returns a failed result with a message, and when the loop is over there
\* is one result per supplied path in the supplied order, every file
\* without a failure has been processed (success, and its rewritten
\* content on disk), and the error list has exactly one entry per failed
\* file, naming it.
C6_FailureIsolatedPerFile ==
    /\ (LastIsExec /\ IOFailed(LastOp)) =>
          /\ LastOp.returns
          /\ ~LastOp.result.success
          /\ LastOp.result.error \notin {None, <<>>}
    /\ (pc = "batch" /\ ~stuck /\ idx > Len(file_paths)) =>
          /\ Len(summary.files) = Len(file_paths)
          /\ \A i \in 1..Len(file_paths) :
                LET e == EntryAt(i)
                IN  /\ summary.files[i] = e.result
                    /\ e.path = file_paths[i]
                    /\ e.result.file_path = file_paths[i]
                    /\ (~IOFailed(e) /\ e.locals.status = "ok") =>
                           /\ e.result.success /\ e.result.error = None
                           /\ e.result.replacements_count = e.locals.total
                           /\ e.locals.total > 0 =>
                                  e.post = File(file_write_bytes(e.locals.content))
          /\ summary.errors = ErrorsOwed(Len(file_paths))
          /\ \A i \in 1..Len(file_paths) :
                IOFailed(EntryAt(i)) =>
                    Cardinality({j \in 1..Len(summary.errors) :
                                    summary.errors[j][1] = file_paths[i]}) = 1

\* C6 witness: a batch of three files is over, the second one failed on
\* I/O, the first and the third were rewritten, and there is one error entry.
C6_Witness ==
    /\ pc = "batch" /\ idx > Len(file_paths) /\ Len(file_paths) = 3
    /\ IOFailed(EntryAt(2))
    /\ summary.files[1].replacements_count > 0
    /\ summary.files[3].replacements_count > 0
    /\ Len(summary.errors) = 1 /\ summary.errors[1][1] = file_paths[2]

\* The rules of the call that apply to its file, in order.
ApplicableRules(e) ==
    SelectSeq(e.rules, LAMBDA r : ~rule_skipped(r, splitext_ext(e.path)))

\* The contents before and after each of the given rules, one rule after
\* the other: the k-th is the content after rules 1..k-1.
RECURSIVE ContentChain(_, _, _)
ContentChain(content, rule_list, k) ==
    IF k > Len(rule_list) THEN <<content>>
    ELSE LET r == rule_list[k]
         IN  <<content>> \o ContentChain(
                 RefactorExecutor_apply_replacement(content, r.search_pattern,
                     r.replacement_text, r.is_regex, r.case_sensitive).content,
                 rule_list, k + 1)

\* The tracking entries of rules k.. , rule k's taken on chain[k].
RECURSIVE TrackingFrom(_, _, _, _)
TrackingFrom(file_path, rule_list, chain, k) ==
    IF k > Len(rule_list) THEN <<>>
    ELSE LET r == rule_list[k]
         IN  stamp(find_matches_with_context(chain[k], r.search_pattern,
                       r.replacement_text, r.is_regex, r.case_sensitive).results,
                   r, file_path)
             \o TrackingFrom(file_path, rule_list, chain, k + 1)

\* C7: in a call whose rule loop runs to its end, the tracking entries are
\* those of each applicable rule in the supplied order, rule k's taken on
\* the content that rules 1..k-1 produced; and the content written back is
\* the composition of all applicable rules in that order.
C7_RulesThreadedInOrder ==
    LastIsExec =>
        LET e == LastOp
            rl == ApplicableRules(e)
            chain == ContentChain(file_read_text(e.pre.bytes), rl, 1)
        IN  (ReadOK(e) /\ e.locals.status = "ok") =>
                /\ e.result.tracking = TrackingFrom(e.path, rl, chain, 1)
                /\ (e.result.success /\ e.result.replacements_count > 0) =>
                       e.post = File(file_write_bytes(chain[Len(chain)]))

\* C7 witness: a one-line file went through two rules; the second rule's
\* entry is on line 2, a line that only exists once the first rule is applied.
C7_Witness ==
    /\ LastIsExec
    /\ LET e == LastOp
       IN  /\ e.returns /\ e.result.success
           /\ e.path = P1 /\ e.pre = File(<<"s", "S">>)
           /\ e.rules = <<rule_newline, rule_lower>>
           /\ Len(e.result.tracking) = 2
           /\ e.result.tracking[2].rule_id = 2
           /\ e.result.tracking[2].line_number = 2
           /\ e.post = File(<<NL, "s">>)

\* The most recent execution on path f that went on to back up and write, or 0.
LastTouch(f) ==
    LET ks == {k \in Execs : oplog[k].path = f /\ Touches(oplog[k])}
    IN  IF ks = {} THEN 0 ELSE CHOOSE k \in ks : \A j \in ks : j <= k

C10_BackupFailureStillWrites ==
    LastIsExec =>
        LET e == LastOp
        IN  (Touches(e) /\ "backup" \in e.faults /\ "write" \notin e.faults) =>
                /\ e.returns
                /\ e.result.success = TRUE
                /\ e.result.backup_path = None
                /\ e.result.replacements_count = e.locals.total
                /\ e.post = File(file_write_bytes(e.locals.content))

\* C10 witness: a backup failed and the file was rewritten all the same.
C10_Witness ==
    /\ LastIsExec
    /\ LET e == LastOp
       IN  /\ Touches(e) /\ "backup" \in e.faults
           /\ e.result.success /\ e.result.backup_path = None
           /\ e.post # e.pre /\ ~e.postbak.exists

\* Concatenation of the tracking lists of the first n results of the batch.
RECURSIVE TrackingOfFiles(_)
TrackingOfFiles(n) ==
    IF n = 0 THEN <<>> ELSE TrackingOfFiles(n - 1) \o summary.files[n].tracking

\* Sum of what the rule loops of the first n files of the batch replaced.
RECURSIVE ReplacedByLoops(_)
ReplacedByLoops(n) ==
    IF n = 0 THEN 0 ELSE ReplacedByLoops(n - 1) + EntryAt(n).locals.total

\* C11 (as claimed): a file whose execution fails after some rules were
\* applied keeps, in its result, the tracking entries gathered and the
\* replacement count of those rules, and the batch's tracking list and
\* total_replacements include them.
C11_PartialDataContributed ==
    /\ (LastIsExec /\ LastOp.returns /\ ~LastOp.result.success
        /\ LastOp.locals.status # "unread") =>
          /\ LastOp.locals.total > 0 => LastOp.result.tracking # <<>>
          /\ LastOp.result.replacements_count = LastOp.locals.total
    /\ (pc = "batch" /\ ~stuck /\ idx > Len(file_paths)) =>
          /\ summary.tracking = TrackingOfFiles(Len(file_paths))
          /\ summary.total_replacements = ReplacedByLoops(Len(file_paths))

\* C12: restore_from_backup returns a boolean in every case; it returns
\* false and leaves the file as it was when path.bak does not exist; it
\* returns false when the copy fails; when it returns true the file holds
\* the backup's bytes; the backup is never changed.
C12_RestoreNeverRaises ==
    LastIsRestore =>
        LET r == LastOp
        IN  /\ r.ret \in BOOLEAN
            /\ ~r.prebak.exists => (r.ret = FALSE /\ r.post = r.pre)
            /\ r.fails => r.ret = FALSE
            /\ r.ret = TRUE => (r.prebak.exists /\ r.post = r.prebak)
            /\ r.postbak = r.prebak

\* C12 witness: a restore whose copy failed part-way: it returned false,
\* the file is neither what it was nor the backup, and the backup is intact.
C12_Witness ==
    /\ LastIsRestore
    /\ LET r == LastOp
       IN  /\ r.fails /\ r.ret = FALSE /\ r.prebak.exists
           /\ r.post # r.pre /\ r.post # r.prebak
           /\ r.postbak = r.prebak

\* Sum of the replacements_count of the first n results of the summary.
RECURSIVE SumCounts(_)
SumCounts(n) ==
    IF n = 0 THEN 0 ELSE SumCounts(n - 1) + summary.files[n].replacements_count

\* C13: all along execute_batch and after it, files_modified is the number
\* of results with a nonzero replacements_count, total_replacements is the
\* sum of the replacements_count values, total_files is the number of
\* supplied paths, and at the end there is one result per path.
C13_SummaryCounts ==
    /\ summary.files_modified =
          Cardinality({i \in 1..Len(summary.files) :
                          summary.files[i].replacements_count # 0})
    /\ summary.total_replacements = SumCounts(Len(summary.files))
    /\ summary.total_files = Len(file_paths)
    /\ (pc = "batch" /\ ~stuck /\ idx > Len(file_paths)) =>
          Len(summary.files) = Len(file_paths)

\* C13 witness: a batch is over in which one file was rewritten and another
\* one succeeded with nothing to replace.
C13_Witness ==
    /\ pc = "batch" /\ idx > Len(file_paths) /\ Len(file_paths) >= 2
    /\ summary.files_modified = 1 /\ summary.total_replacements >= 1
    /\ \E i \in 1..Len(summary.files) :
          summary.files[i].success /\ summary.files[i].replacements_count = 0

(***************************************************************************)
(* Properties of the execute endpoint, checked under SpecApi.              *)
(***************************************************************************)
\* The request names no active rule, no file, or a path that is no file.
RequestInvalid(request, d) ==
    \/ ~\E i \in 1..Len(DbRules) :
           DbRules[i].is_active /\ DbRules[i].rule.rule_id \in request.rule_ids
    \/ request.file_paths = <<>>
    \/ \E i \in 1..Len(request.file_paths) : ~d[request.file_paths[i]].exists

\* C14: a request with no active rule, with no file, or with a path that
\* is not an existing file is answered 400, and in handling it no file or
\* backup changes, no path is handed to the executor and no history row
\* is added.
C14_RejectedBeforeAnyEffect ==
    [][(api'.nreq = api.nreq + 1 /\ RequestInvalid(api'.request, disk)) =>
          /\ api'.http.status = 400
          /\ disk' = disk
          /\ api'.touched = api.touched
          /\ api'.history = api.history]_vars

\* C14 witness: after one execution that rewrote a file, a request whose
\* first path exists and whose second does not was answered 400; there is
\* still one history row and the existing file of the request is as it was.
C14_Witness ==
    /\ api.nreq = 2 /\ api.http = Http(400, "File not found", P3)
    /\ api.request.file_paths = <<P2, P3>>
    /\ Len(api.history) = 1 /\ api.history[1].total_files_modified = 1
    /\ api.touched = {P1}
    /\ disk[P2] = InitDisk[P2] /\ ~disk[BakPath(P2)].exists

(***************************************************************************)
(* Properties of the file filter and of the walk, checked under SpecWalk.  *)
(***************************************************************************)
\* C19: should_include_file answers true exactly when the file's
\* lowercased extension is not in exclude_extensions and include_extensions
\* is empty or holds the extension; an extension in both sets is excluded.
C19_IncludeIffNotExcluded ==
    walk.asked # None =>
        LET ext == lower(splitext_ext(walk.asked))
        IN  /\ walk.answer = (/\ ext \notin scanner.exclude_extensions
                              /\ \/ scanner.include_extensions = {}
                                 \/ ext \in scanner.include_extensions)
            /\ (ext \in scanner.exclude_extensions
                /\ ext \in scanner.include_extensions) => walk.answer = FALSE

\* C19 witness: a .CS file was asked about with ".cs" both included and
\* excluded, and was refused.
C19_Witness ==
    /\ walk.asked = path_join(path_join(N_r, N_src), P2)
    /\ <<".", "c", "s">> \in scanner.include_extensions
    /\ <<".", "c", "s">> \in scanner.exclude_extensions
    /\ walk.answer = FALSE

\* The names of the directories between root and path (path's last
\* component left out when path is a file).
DirsBelow(root, path, is_file) ==
    IF Len(path) <= Len(root) THEN <<>>
    ELSE LET parts == str_split(SubSeq(path, Len(root) + 2, Len(path)), "/")
         IN  IF is_file THEN SubSeq(parts, 1, Len(parts) - 1) ELSE parts

\* A folder name that must not be descended into.
FolderExcluded(name) ==
    lower(name) \in scanner.exclude_folders \/ name[1] = "."

\* C20: the excluded-folder set always holds the six fixed names, and
\* scan_directory neither yields a file below, nor lists, a sub-directory
\* of the root whose lowercased name is in the set or whose name starts
\* with a dot.
C20_ExcludedFoldersPruned ==
    /\ ALWAYS_EXCLUDE_FOLDERS \subseteq scanner.exclude_folders
    /\ {<<".", "g", "i", "t">>, <<".", "v", "s">>, <<".", "h", "g">>,
        <<".", "s", "v", "n">>} \subseteq scanner.exclude_folders
    /\ walk.root # None =>
          /\ \A i \in 1..Len(walk.files) :
                LET ds == DirsBelow(walk.root, walk.files[i], TRUE)
                IN  \A k \in 1..Len(ds) : ~FolderExcluded(ds[k])
          /\ \A i \in 1..Len(walk.visited) :
                LET ds == DirsBelow(walk.root, walk.visited[i], FALSE)
                IN  \A k \in 1..Len(ds) : ~FolderExcluded(ds[k])

\* C20 witness: the root r was walked with every extension allowed and
\* the folder "sc" excluded by configuration: only r and r/src were
\* listed, and the files under .git, Sc, .s and __pyCaChe__ were not yielded.
C20_Witness ==
    /\ walk.root = N_r
    /\ scanner.include_extensions = {} /\ scanner.exclude_extensions = {}
    /\ <<"s", "c">> \in scanner.exclude_folders
    /\ walk.visited = <<N_r, path_join(N_r, N_src)>>
    /\ Len(walk.files) = 4

(***************************************************************************)
(* Further properties of the matching functions, checked under SpecMatch.  *)
(***************************************************************************)
\* The number of newline characters among the first pos characters.
NewlinesBefore(content, pos) ==
    Cardinality({i \in 1..pos : content[i] = NL})

\* The offset at which the 1-indexed line ln of content starts, and the
\* offset just after its last character.
LineStartOffset(content, ln) ==
    IF ln = 1 THEN 0
    ELSE CHOOSE i \in 1..Len(content) :
            content[i] = NL /\ NewlinesBefore(content, i) = ln - 1
LineEndOffset(content, ln) ==
    IF ln = NewlinesBefore(content, Len(content)) + 1 THEN Len(content)
    ELSE (CHOOSE i \in 1..Len(content) :
            content[i] = NL /\ NewlinesBefore(content, i) = ln) - 1

\* C25: for every match find_matches_with_context returns, the line number
\* is 1 plus the number of newline characters before the start of the
\* match, hence 1-indexed, and the context snippet is the text of the
\* lines from max(1, line - context_lines) to
\* min(last line, line + context_lines).
C25_LineNumberAndContext ==
    (ret.done /\ ret.context.term) =>
        /\ Len(ret.context.results) = Len(ret.found.matches)
        /\ \A k \in 1..Len(ret.context.results) :
              LET e == ret.context.results[k]
                  last == NewlinesBefore(call.content, Len(call.content)) + 1
              IN  /\ e.line_number
                        = 1 + NewlinesBefore(call.content, ret.found.matches[k][1])
                  /\ e.line_number \in 1..last
                  /\ e.context_snippet
                        = Slice(call.content,
                                LineStartOffset(call.content,
                                    Max(1, e.line_number - context_lines)),
                                LineEndOffset(call.content,
                                    Min(last, e.line_number + context_lines)))
                  /\ e.original_text = ret.found.matches[k][3]
                  /\ e.replacement_text = call.replacement_text

\* A match at the very start of the second of four lines: its snippet is
\* the first three lines, not the whole content.
C25_Witness ==
    /\ ret.done /\ ret.context.term
    /\ call.content = <<NL, "s", NL, NL>>
    /\ Len(ret.context.results) = 1
    /\ ret.context.results[1].line_number = 2
    /\ ret.context.results[1].context_snippet = <<NL, "s", NL>>

\* C27 (as claimed): find_matches terminates for every content and every
\* pattern, in literal and in regex mode, the empty pattern and patterns
\* longer than the content included.
C27_FindMatchesTerminates ==
    ret.done => ret.found.term

(***************************************************************************)
(* Properties of the scan stream, checked under SpecScan.                  *)
(***************************************************************************)
\* The rules of the running scan that apply to a file of extension ext.
ScanRulesFor(ext) ==
    SelectSeq(query_active_rules(scan.rule_ids, 1),
              LAMBDA r : \/ r.target_extensions \in {None, <<>>}
                         \/ ext \in _normalize_ext_set(r.target_extensions))

\* The number of matches the rules produce in a text, one rule after the
\* other, each on the text the rules before it left.
RECURSIVE MatchesProduced(_, _, _)
MatchesProduced(text, rule_list, i) ==
    IF i > Len(rule_list) THEN 0
    ELSE LET r == FileScanner_apply_replacement(text, rule_list[i].search_pattern,
                      rule_list[i].replacement_text, rule_list[i].is_regex,
                      rule_list[i].case_sensitive)
         IN  r.count + MatchesProduced(IF r.count > 0 THEN r.content ELSE text,
                                       rule_list, i + 1)

\* A read entry of the trace whose file the rules match.
HasMatches(e) ==
    /\ e.kind = "read" /\ e.ok
    /\ MatchesProduced(e.diff[1], ScanRulesFor(lower(splitext_ext(e.path))), 1) > 0

\* C15: in the streamed scan every read of a file's content comes directly
\* after the progress event of that file, and nothing but that read comes
\* directly after a progress event; a match event comes only directly
\* after the read of its own file, hence after that file's progress event
\* and before the next one, and exactly when the rules produced at least
\* one match in the content read, whose number it carries; a file with no
\* match or that cannot be read has its progress event and no match event.
C15_ProgressReadMatchOrder ==
    \A i \in 1..Len(scan.trace) :
        LET e == scan.trace[i]
        IN  /\ e.kind = "read" =>
                /\ i > 1 /\ scan.trace[i - 1].kind = "progress"
                /\ scan.trace[i - 1].path = e.path
                /\ IF HasMatches(e)
                   THEN /\ i < Len(scan.trace)
                        /\ scan.trace[i + 1].kind = "match"
                   ELSE i < Len(scan.trace) => scan.trace[i + 1].kind = "progress"
            /\ e.kind = "progress" =>
                /\ e.total = scan.total_files /\ e.scanned \in 1..e.total
                /\ scan.files_to_scan[e.scanned].file_path = e.path
                /\ i < Len(scan.trace) =>
                      /\ scan.trace[i + 1].kind = "read"
                      /\ scan.trace[i + 1].path = e.path
            /\ e.kind = "match" =>
                /\ i > 1 /\ scan.trace[i - 1].kind = "read"
                /\ scan.trace[i - 1].path = e.path
                /\ HasMatches(scan.trace[i - 1])
                /\ e.match_count =
                      MatchesProduced(scan.trace[i - 1].diff[1],
                                      ScanRulesFor(lower(splitext_ext(e.path))), 1)
                /\ e.diff[1] = scan.trace[i - 1].diff[1]
                /\ i < Len(scan.trace) => scan.trace[i + 1].kind = "progress"

\* A scan that has reported a match for one file and has gone on past a
\* file it read without a match and past a file it could not read.
C15_Witness ==
    /\ \E i \in 1..Len(scan.trace) : scan.trace[i].kind = "match"
    /\ \E i \in 1..(Len(scan.trace) - 1) :
          /\ scan.trace[i].kind = "read" /\ scan.trace[i].ok
          /\ scan.trace[i + 1].kind = "progress"
    /\ \E i \in 1..(Len(scan.trace) - 1) :
          /\ scan.trace[i].kind = "read" /\ ~scan.trace[i].ok
          /\ scan.trace[i + 1].kind = "progress"

\* The paths of the entries of one kind in a trace, in order.
PathsOf(trace, kind) ==
    LET es == SelectSeq(trace, LAMBDA e : e.kind = kind)
    IN  [i \in 1..Len(es) |-> es[i].path]

NoRepeat(paths) ==
    \A i, j \in 1..Len(paths) : paths[i] = paths[j] => i = j

\* C16: within one scan, over overlapping roots too, no two progress
\* events, no two reads and no two match events have the same file path;
\* the set of visited paths holds exactly the paths of the progress
\* events, and a step of the scan never takes a path out of it.
C16_EachPathAtMostOnce ==
    [][/\ NoRepeat(PathsOf(scan'.trace, "progress"))
       /\ NoRepeat(PathsOf(scan'.trace, "read"))
       /\ NoRepeat(PathsOf(scan'.trace, "match"))
       /\ scan'.gen # "unstarted" =>
             scan'.seen_files = {PathsOf(scan'.trace, "progress")[i] :
                                    i \in 1..Len(PathsOf(scan'.trace, "progress"))}
       /\ scan'.nscans = scan.nscans => scan.seen_files \subseteq scan'.seen_files]_vars

\* A finished scan over overlapping roots: a file is listed twice, under
\* each root, it was reported, and the second listing was skipped.
C16_Witness ==
    /\ scan.gen = "done"
    /\ \E i, j \in 1..Len(scan.files_to_scan) :
          /\ i < j
          /\ scan.files_to_scan[i].file_path = scan.files_to_scan[j].file_path
          /\ scan.files_to_scan[i].root_path # scan.files_to_scan[j].root_path
          /\ scan.files_to_scan[i].file_path \in scan.seen_files
          /\ \E k \in 1..Len(scan.trace) :
                /\ scan.trace[k].kind = "match"
                /\ scan.trace[k].path = scan.files_to_scan[i].file_path
    /\ Len(PathsOf(scan.trace, "progress")) < scan.total_files

\* C17: the scan stream is lazy and can be interrupted: at any moment the
\* files whose content was read are the files of the progress events
\* emitted so far, in that order, but possibly for the last; once the
\* consumer has stopped, after whatever event, the producer has ended,
\* has read and emitted nothing since, and no error event was emitted;
\* a stream stopped before its first item has not listed the files.
C17_StopsWhereConsumerStopped ==
    LET reads == PathsOf(scan.trace, "read")
        progress == PathsOf(scan.trace, "progress")
    IN  /\ Len(reads) \in {Len(progress), Len(progress) - 1}
        /\ reads = SubSeq(progress, 1, Len(reads))
        /\ \A i \in 1..Len(scan.trace) : scan.trace[i].kind # "error"
        /\ scan.consumer = "stopped" =>
              /\ scan.gen = "closed"
              /\ scan.trace = scan.at_stop
              /\ scan.trace = <<>> => scan.files_to_scan = <<>>

\* The consumer stopped right after a progress event, with files read
\* before it and files still to come: the file of that event and the
\* files after it were never read.
C17_Witness ==
    /\ scan.consumer = "stopped"
    /\ Len(scan.trace) > 2
    /\ scan.trace[Len(scan.trace)].kind = "progress"
    /\ scan.trace[Len(scan.trace)].scanned < scan.total_files
    /\ \E i \in 1..Len(scan.trace) : scan.trace[i].kind = "match"

\* A rule whose pattern is a regular expression that does not compile.
InvalidRegex(r) == r.is_regex /\ ~re_valid(r.search_pattern)

\* The rules of a list but for those with an invalid regex.
ValidRules(rule_list) == SelectSeq(rule_list, LAMBDA r : ~InvalidRegex(r))

\* The text the rules leave of a text, one rule after the other.
RECURSIVE TextProduced(_, _, _)
TextProduced(text, rule_list, i) ==
    IF i > Len(rule_list) THEN text
    ELSE LET r == FileScanner_apply_replacement(text, rule_list[i].search_pattern,
                      rule_list[i].replacement_text, rule_list[i].is_regex,
                      rule_list[i].case_sensitive)
         IN  TextProduced(IF r.count > 0 THEN r.content ELSE text, rule_list, i + 1)

\* The scan half of C18, on the trace so far: on every content read, the
\* preview functions give no match for an invalid regex and leave the
\* content as it is; no error event is emitted; a file is reported exactly
\* when the other rules match in it, with their count and their result.
ScanDegradesToZero ==
    \A i \in 1..Len(scan.trace) :
        LET e == scan.trace[i]
            valid == ValidRules(ScanRulesFor(lower(splitext_ext(e.path))))
        IN  /\ e.kind # "error"
            /\ (e.kind = "read" /\ e.ok) =>
                  /\ \A cs \in BOOLEAN :
                        /\ find_matches(e.diff[1], rule_bad_regex.search_pattern, TRUE, cs)
                              = [term |-> TRUE, matches |-> <<>>]
                        /\ find_matches_with_context(e.diff[1],
                               rule_bad_regex.search_pattern, <<"s">>, TRUE, cs)
                              = [term |-> TRUE, results |-> <<>>]
                        /\ FileScanner_apply_replacement(e.diff[1],
                               rule_bad_regex.search_pattern, <<"s">>, TRUE, cs)
                              = Returned(e.diff[1], 0)
                  /\ (MatchesProduced(e.diff[1], valid, 1) > 0) =>
                        /\ i < Len(scan.trace)
                        /\ scan.trace[i + 1].kind = "match"
                        /\ scan.trace[i + 1].match_count
                              = MatchesProduced(e.diff[1], valid, 1)
                        /\ scan.trace[i + 1].diff
                              = <<e.diff[1], TextProduced(e.diff[1], valid, 1)>>
                  /\ (MatchesProduced(e.diff[1], valid, 1) = 0 /\ i < Len(scan.trace)) =>
                        scan.trace[i + 1].kind = "progress"

\* A request that was executed with a rule of an invalid regex.
ExecutedInvalidRegex(a) ==
    /\ a.http.status = 200
    /\ \E i \in 1..Len(query_active_rules(a.request.rule_ids, 1)) :
          InvalidRegex(query_active_rules(a.request.rule_ids, 1)[i])

\* C18: an invalid regex never crashes the caller.  On the scan and
\* preview paths it gives no match and leaves the content, and the scan
\* goes on with the other rules and files and emits no error event.  On
\* the execution path the request is answered, every file of the batch
\* has a result, the result of a file the rule was applied to carries the
\* error message and no success, and the disk is as it was before the
\* request.
C18_InvalidRegexNeverCrashes ==
    /\ ScanDegradesToZero
    /\ ExecutedInvalidRegex(api) =>
          /\ Len(api.result.files) = Len(api.request.file_paths)
          /\ \A i \in 1..Len(api.result.files) :
                /\ api.result.files[i].file_path = api.request.file_paths[i]
                /\ ~api.result.files[i].success
                /\ api.result.files[i].error = <<"Invalid regex pattern">>
                /\ api.result.files[i].replacements_count = 0
                /\ api.result.errors[i]
                      = <<api.request.file_paths[i], <<"Invalid regex pattern">>>>
          /\ disk = api.before

\* A scan with an invalid regex among its rules reported a match of
\* another rule and went on to further files, and the execution of the
\* same rules on the files reported was answered with the error of each
\* of its two or more files.
C18_Witness ==
    /\ ExecutedInvalidRegex(api)
    /\ api.request.rule_ids = scan.rule_ids
    /\ Len(api.result.files) >= 2
    /\ Len(api.result.errors) = Len(api.result.files)
    /\ \E i \in 1..(Len(scan.trace) - 1) :
          /\ scan.trace[i].kind = "match"
          /\ scan.trace[i + 1].kind = "progress"

(***************************************************************************)
(* Properties of generate_variants, checked under SpecVariants.            *)
(***************************************************************************)
\* The rank of a category in the order of the generation steps.
CategoryRank(category) ==
    IF category = <<"Exact">> THEN 1
    ELSE IF category = <<"Case Variant">> THEN 2
    ELSE IF category = <<"Snake Case">> THEN 3
    ELSE IF category = <<"Underscore Prefix">> THEN 4
    ELSE IF category[3] = "*" THEN 5
    ELSE 6

\* Two candidates or variants with the same (original, replacement) pair.
SamePair(a, b) == a.original = b.original /\ a.replacement = b.replacement

\* C21: generate_variants never emits a variant whose original equals its
\* replacement; the (original, replacement) pairs of one call are pairwise
\* distinct; a pair produced by several generation steps, with two sides
\* that differ, is emitted with the category of the earliest of them, in
\* the order Exact, case variants, snake case, underscore prefix,
\* Pascal-joined prefixes, underscore-joined prefixes.
C21_VariantsDistinctEarliestCategory ==
    ret.done =>
        /\ \A i \in 1..Len(ret.suggestions) :
              /\ ret.suggestions[i].original # ret.suggestions[i].replacement
              /\ \A j \in 1..Len(ret.suggestions) :
                    SamePair(ret.suggestions[i], ret.suggestions[j]) => i = j
              /\ \E k \in 1..Len(ret.added) : ret.added[k] = ret.suggestions[i]
        /\ \A k \in 1..Len(ret.added) :
              ret.added[k].original # ret.added[k].replacement =>
                 \E i \in 1..Len(ret.suggestions) :
                    /\ SamePair(ret.suggestions[i], ret.added[k])
                    /\ \A n \in 1..k :
                          SamePair(ret.added[n], ret.added[k]) =>
                             CategoryRank(ret.suggestions[i].category)
                                <= CategoryRank(ret.added[n].category)
                    /\ \E m \in 1..k :
                          /\ ret.added[m] = ret.suggestions[i]
                          /\ \A n \in 1..(m - 1) : ~SamePair(ret.added[n], ret.added[m])

\* A call in which a candidate with equal sides was dropped and a pair
\* came again in a later step of another category.
C21_Witness ==
    /\ ret.done /\ ret.suggestions # <<>>
    /\ \E k \in 1..Len(ret.added) : ret.added[k].original = ret.added[k].replacement
    /\ \E i \in 1..Len(ret.suggestions), k \in 1..Len(ret.added) :
          /\ SamePair(ret.added[k], ret.suggestions[i])
          /\ CategoryRank(ret.added[k].category)
                > CategoryRank(ret.suggestions[i].category)

(***************************************************************************)
(* Properties of the SQL analyzer, checked under SpecSql.                  *)
(***************************************************************************)
\* The DDL of a kind occurs in the content: one of its first words, white
\* space, one of its second words and white space again, in any case.
DdlOccurs(content, firsts, seconds) ==
    \E i \in 1..Len(content), j \in 1..Len(content) :
        /\ i + 1 < j /\ j < Len(content)
        /\ SqlLowerAtom(content[i]) \in firsts
        /\ \A k \in (i + 1)..(j - 1) : content[k] \in {" ", NL}
        /\ SqlLowerAtom(content[j]) \in seconds
        /\ content[j + 1] \in {" ", NL}
KindOccurs(content, kind) ==
    CASE kind = "TABLE_TYPE" -> DdlOccurs(content, {"create"}, {"type"})
      [] kind = "VIEW" -> DdlOccurs(content, {"create", "alter"}, {"view"})
      [] kind = "STORED_PROCEDURE" ->
            DdlOccurs(content, {"create", "alter"}, {"procedure", "proc"})
      [] kind = "FUNCTION" -> DdlOccurs(content, {"create", "alter"}, {"function"})
      [] kind = "TABLE" -> DdlOccurs(content, {"create"}, {"table"})
KindPriority == <<"TABLE_TYPE", "VIEW", "STORED_PROCEDURE", "FUNCTION", "TABLE">>

\* The kind that the prefix of the file name stands for.
NamePrefixes ==
    << [kind |-> "STORED_PROCEDURE", prefixes |-> {<<"s", "p">>, <<"u", "s", "p">>}],
       [kind |-> "VIEW", prefixes |-> {<<"v", "w">>, <<"v", "i", "e", "w">>}],
       [kind |-> "FUNCTION", prefixes |-> {<<"f", "n">>, <<"u", "f", "n">>}],
       [kind |-> "TABLE", prefixes |-> {<<"t", "b", "l">>, <<"t", "a", "b", "l", "e">>}] >>
NameHasKind(file_path, n) ==
    \E p \in NamePrefixes[n].prefixes :
        startswith(lower(os_path_basename(file_path)), p)

\* C22: detect_sql_type returns the first kind, in the order TABLE_TYPE,
\* VIEW, STORED_PROCEDURE, FUNCTION, TABLE, whose DDL occurs anywhere in
\* the content, in any case and at any position; only when no DDL occurs
\* is the prefix of the file name consulted (sp/usp, vw/view, fn/ufn,
\* tbl/table, in this order); otherwise the kind is UNKNOWN.
C22_DetectionByPriorityThenFilename ==
    ret.done =>
        LET occurring == {n \in 1..5 : KindOccurs(call.content, KindPriority[n])}
            named == {n \in 1..4 : NameHasKind(call.file_path, n)}
        IN  IF occurring # {}
            THEN \E n \in occurring :
                    /\ ret.sql_type = KindPriority[n]
                    /\ \A k \in occurring : n <= k
            ELSE IF named # {}
            THEN \E n \in named :
                    /\ ret.sql_type = NamePrefixes[n].kind
                    /\ \A k \in named : n <= k
            ELSE ret.sql_type = "UNKNOWN"

\* A file named sp whose content has CREATE TABLE before CREATE VIEW is
\* detected as a view.
C22_Witness ==
    /\ ret.done
    /\ call.content = <<"CREATE", " ", "TABLE", " ", "CREATE", " ", "VIEW", " ">>
    /\ call.file_path = <<"s", "p">>
    /\ ret.sql_type = "VIEW"

\* The content of the call begins with CREATE PROCEDURE <name>; the name
\* is the run of name atoms after the two words and the header ends with it.
CreateProcedure == <<"CREATE", " ", "PROCEDURE", " ">>
AlterProcedure == <<"ALTER", " ", "PROCEDURE", " ">>
ProcName ==
    SubSeq(call.content, 5, RunEnd(call.content, 5, IsNameAtom) - 1)
BeginsWithCreateProcedure ==
    startswith(call.content, CreateProcedure) /\ ProcName # <<>>
HeaderLen == 4 + Len(ProcName)
SearchInHeader ==
    _contains_pattern(SubSeq(call.content, 1, HeaderLen), call.search_pattern)

\* The content with its leading CREATE replaced by ALTER, and the search
\* text found in it at a position of the header.
LeadingAlter == AlterProcedure \o SubSeq(call.content, 5, Len(call.content))
SearchTouchesAlterHeader ==
    \E i \in 1..HeaderLen : sql_occurs_at(LeadingAlter, call.search_pattern, i)

\* C23 as stated: for content beginning with CREATE PROCEDURE <name> and a
\* search text that does not occur in that header, the detected kind is
\* STORED_PROCEDURE and the script of generate_alter_sql begins with
\* ALTER PROCEDURE <name>.
C23_ProcedureScriptBeginsWithAlter ==
    (ret.done /\ BeginsWithCreateProcedure /\ ~SearchInHeader) =>
        /\ ret.result.sql_type = "STORED_PROCEDURE"
        /\ startswith(ret.result.alter_sql, AlterProcedure \o ProcName)

\* The comment lines of the procedure script, up to the line of the body.
ProcedureBanner ==
    str_join(NL, banner("-- ALTER Script for STORED PROCEDURE: ",
                        _strip_brackets(ProcName), call.search_pattern,
                        call.replacement_text,
                        "-- Strategy: ALTER PROCEDURE (preserves permissions)"))
        \o <<NL>>

\* C23, amended: for content beginning with CREATE PROCEDURE <name> in
\* which neither CREATE TYPE nor CREATE/ALTER VIEW occurs, and a search
\* text that occurs at no position of the header once the leading CREATE
\* has become ALTER, the detected kind is STORED_PROCEDURE and the script
\* of generate_alter_sql is the five comment lines and the empty line of
\* its banner followed by a body that begins with ALTER PROCEDURE <name>.
C23_ProcedureScriptAfterBanner ==
    (/\ ret.done
     /\ BeginsWithCreateProcedure
     /\ ~KindOccurs(call.content, "TABLE_TYPE")
     /\ ~KindOccurs(call.content, "VIEW")
     /\ ~SearchTouchesAlterHeader) =>
        /\ ret.sql_type = "STORED_PROCEDURE"
        /\ ret.result.sql_type = "STORED_PROCEDURE"
        /\ startswith(ret.result.alter_sql,
                      ProcedureBanner \o AlterProcedure \o ProcName)

\* A procedure file whose body holds the search text and a second CREATE
\* PROC: the script has the banner, then ALTER PROCEDURE <name>.
C23_Witness ==
    /\ ret.done
    /\ BeginsWithCreateProcedure
    /\ ~KindOccurs(call.content, "TABLE_TYPE")
    /\ ~KindOccurs(call.content, "VIEW")
    /\ ~SearchTouchesAlterHeader
    /\ ProcName = <<"m">>
    /\ call.search_pattern = <<"q">>
    /\ SubSeq(call.content, HeaderLen + 1, Len(call.content))
          = <<NL, "CREATE", " ", "PROC", " ", "q">>
    /\ ret.result.alter_sql # call.content
    /\ startswith(ret.result.alter_sql, ProcedureBanner \o AlterProcedure)

\* The table of a call detected as TABLE: its name as the script spells it
\* (brackets removed), the schema prefix of the name with its dot, and the
\* short name after the last dot.
TableName ==
    IF _extract_object_name(call.content, "TABLE") = None THEN PLACEHOLDER_NAME
    ELSE _strip_brackets(_extract_object_name(call.content, "TABLE"))
LastDot == {i \in 1..Len(TableName) : TableName[i] = "."}
SchemaPrefix ==
    IF LastDot = {} THEN <<>> ELSE SubSeq(TableName, 1, greatest(LastDot))
ShortName ==
    SubSeq(TableName, Len(SchemaPrefix) + 1, Len(TableName))

\* A name contains the search text, in any case; the name after the
\* replacement.
HasSearchText(name) ==
    \E i \in 1..Len(name) :
        /\ i + Len(call.search_pattern) - 1 <= Len(name)
        /\ sql_lower(SubSeq(name, i, i + Len(call.search_pattern) - 1))
              = sql_lower(call.search_pattern)
Renamed(name) == _apply_replacement(name, call.search_pattern, call.replacement_text)

\* The rename statements of the script, in its order.
RenameStatements ==
    SelectSeq(str_split(ret.result.alter_sql, NL),
              LAMBDA l : l # <<>> /\ l[1] = "EXEC sp_rename '")
MatchingColumns == SelectSeq(ret.columns, HasSearchText)
MatchingConstraints == SelectSeq(ret.constraints, HasSearchText)
TableRenames == IF HasSearchText(ShortName) THEN 1 ELSE 0

\* C24: the rename statements of a table script are, in this order, the
\* rename of the table (present exactly when its short name contains the
\* search text), one rename for each matching column, and one rename for
\* each matching constraint or index; when the table rename is present,
\* every column rename names the table by its new name, schema prefix kept.
C24_TableRenameOrder ==
    (ret.done /\ ret.result.sql_type = "TABLE") =>
        /\ Len(RenameStatements)
              = TableRenames + Len(MatchingColumns) + Len(MatchingConstraints)
        /\ TableRenames = 1 =>
              RenameStatements[1]
                 = <<"EXEC sp_rename '">> \o TableName \o <<"', '">>
                      \o Renamed(ShortName) \o <<"';">>
        /\ \A i \in 1..Len(MatchingColumns) :
              RenameStatements[TableRenames + i]
                 = <<"EXEC sp_rename '">>
                      \o (IF TableRenames = 1
                          THEN SchemaPrefix \o Renamed(ShortName)
                          ELSE TableName)
                      \o <<".">> \o MatchingColumns[i] \o <<"', '">>
                      \o Renamed(MatchingColumns[i]) \o <<"', 'COLUMN';">>
        /\ \A i \in 1..Len(MatchingConstraints) :
              RenameStatements[TableRenames + Len(MatchingColumns) + i]
                 = <<"EXEC sp_rename '">> \o MatchingConstraints[i] \o <<"', '">>
                      \o Renamed(MatchingConstraints[i]) \o <<"', 'OBJECT';">>

\* A table with a schema prefix whose name, two columns and two
\* constraints all contain the search text.
C24_Witness ==
    /\ ret.done /\ ret.result.sql_type = "TABLE"
    /\ TableRenames = 1
    /\ SchemaPrefix # <<>>
    /\ Renamed(ShortName) # ShortName
    /\ Len(MatchingColumns) >= 2
    /\ Len(MatchingConstraints) >= 2
    /\ Len(RenameStatements) >= 5

(***************************************************************************)
(* The pre-image of a file, checked under Spec.                            *)
(***************************************************************************)
\* C28: after a call of execute_replacement, whatever read, backup or
\* write step failed in it, either the file is as it was before the call or
\* path + '.bak' exists and holds the content the file had before the call.
C28_PreImageNeverLost ==
    (LastIsExec /\ LastOp.returns) =>
        \/ LastOp.post = LastOp.pre
        \/ /\ LastOp.postbak.exists
           /\ LastOp.postbak.bytes = LastOp.pre.bytes

(***************************************************************************)
(* The preview against the execution, checked under SpecPreview.           *)
(***************************************************************************)
\* The patterns of the rules of the call are valid: not empty, and a
\* regular expression that compiles when the rule is a regex rule.
ValidPatterns ==
    \A i \in 1..Len(call.rules) :
        /\ call.rules[i].search_pattern # <<>>
        /\ call.rules[i].is_regex => re_valid(call.rules[i].search_pattern)

\* C29: for the same file content and the same ordered list of rules with
\* valid patterns, the match_count and the modified content of the scan
\* equal the replacements_count and the content written by
\* execute_replacement (the file is left alone when the count is 0), and
\* the two loops skip the same rules for the extension of the file.
C29_PreviewAgreesWithExecution ==
    (ret.done /\ ValidPatterns) =>
        /\ ret.returns
        /\ ret.scan.match_count = ret.result.replacements_count
        /\ disk[call.file_path].bytes
              = IF ret.scan.matches_found THEN file_write_bytes(ret.scan.content)
                ELSE call.bytes
        /\ ret.scan_skipped = ret.exec_skipped

(***************************************************************************)
(* Rollback of an execution, checked under SpecRollback.                   *)
(***************************************************************************)
\* The ModifiedFile rows of the execution the last rollback was asked for.
RolledBack == api.history[ret.execution_id].modified_files

\* C30: after any sequence of executions, every file that
\* rollback_execution(E) counted as restored holds, when the rollback
\* returns, content whose hash is the original_content_hash that E
\* recorded for it.
C30_RollbackReturnsToStateBeforeExecution ==
    (ret.done /\ ret.status = 200) =>
        \A k \in ret.restored :
            sha256(ret.after[RolledBack[k].file_path].bytes)
                = RolledBack[k].original_hash

(***************************************************************************)
(* The auto-merge workflow, checked under SpecMerge.                       *)
(***************************************************************************)
\* Step 2 is due for project k: there are rules and the root is a directory.
ApplyDue(k) == call.active_rules # <<>> /\ isdir(call.projects[k].root_path)

\* The steps so far are pull 1, apply 1, pull 2, apply 2, ... with "skip"
\* in the place of "apply" exactly where step 2 is not due.
PullThenApply ==
    \A i \in 1..Len(ret.steps) :
        ret.steps[i] = <<(IF i % 2 = 1 THEN "pull"
                          ELSE IF ApplyDue(i \div 2) THEN "apply" ELSE "skip"),
                         (i + 1) \div 2>>

\* The rules were re-applied to the files of project k.
RulesApplied(k) ==
    /\ ret.results[k].rules_applied = Len(call.active_rules)
    /\ <<"apply", k>> \in {ret.steps[i] : i \in 1..Len(ret.steps)}

\* The handler has returned one result per active project.
MergeReturned ==
    /\ ret.pc = "returned" /\ ret.status = 200
    /\ Len(ret.results) = Len(call.projects)
    /\ \A k \in 1..Len(call.projects) :
          /\ ret.results[k].project_name = call.projects[k].name
          /\ ApplyDue(k) => RulesApplied(k)

\* C26: the auto-merge workflow takes the active projects in turn, for
\* each first the pull and then the re-application of the active rules to
\* the files scanned under its root, whether or not the pull succeeded, and
\* it completes by returning one result per active project with the
\* replacements made.
C26_AutoMergeCompletes == []PullThenApply /\ <>MergeReturned

====
